---- MODULE Spec2Model ----
(***************************************************************************)
(* Smart-Bike drivers: the KICKR device session with its two sub-devices   *)
(* (Climber, Resistance), the write threads they start, the GATT transport *)
(* acknowledgements, the Indoor Bike Data decoder (WahooData) and the      *)
(* Headwind fan.                                                           *)
(*                                                                         *)
(* Command values are fixed-point numbers in tenths: 1.5 is 15, -10 is     *)
(* -100.  Python's None is NoneVal for numbers, "None" for references and  *)
(* <<>> for byte arrays.                                                   *)
(***************************************************************************)
EXTENDS Integers, Sequences, FiniteSets, TLC

\* ------------------------------------------------------------------ bounds
MaxMsgs == 2
MaxEnableFails == 1

\* --------------------------------------------------------------- constants
NoneVal == -9999

WRITE_SUCCESS == 0
WRITE_FAIL == 1
NOTIFICATION_SUCCESS == 2
NOTIFICATION_FAIL == 3

TIMEOUT == 10

INCLINE_MIN == -100
INCLINE_MAX == 190
RESISTANCE_MIN == 0
RESISTANCE_MAX == 1000
FAN_LOW == 0
FAN_HIGH == 100

FTMS_REQUEST_CONTROL == 0
FTMS_SET_TARGET_RESISTANCE_LEVEL == 4
INCLINE_CONTROL_OP_CODE == 102

Devices == {"climber", "resistance"}
devices == <<"climber", "resistance">>

Characteristics == {"ftms_control_point", "indoor_bike_data", "incline_control"}

\* the values a command message can carry, per command topic (tenths)
CommandValues ==
    [climber |-> {-97, 15, 190, 195},
     resistance |-> {505, 1005}]

CommandTopics == {"climber", "resistance", "other"}

\* ------------------------------------------------------------------- state
VARIABLES
    conn,                 \* connection state of the gatt.Device
    ftms_control_point,   \* KICKRDevice.ftms_control_point
    indoor_bike_data,     \* KICKRDevice.indoor_bike_data
    control_point,        \* SubDevice.control_point, per sub-device
    internal_value,       \* SubDevice._internal_value
    new_internal_value,   \* SubDevice._new_internal_value
    new_write_value,      \* SubDevice._new_write_value
    terminate_write,      \* SubDevice.terminate_write
    write_timeout_count,  \* SubDevice.write_timeout_count
    write_thread,         \* SubDevice.write_thread: index of the latest thread, 0 = None
    threads,              \* position of every write thread ever started
    mq,                   \* position of the MQTT loop thread
    gl,                   \* position of the GLib main loop (transport callbacks)
    inflight,             \* transport requests issued and not yet answered
    nwid,                 \* number of transport requests issued
    msgs,                 \* number of commands accepted
    enableFails,          \* number of enable-notification failures delivered
    notifying,            \* characteristics whose notifications are enabled
    flags,                \* WahooData.flag_*
    vals,                 \* WahooData data values
    idle,                 \* WahooData.idle
    dres,                 \* outcome of the last WahooData.process_data call
    enable_characteristic,\* HeadwindFan.enable_characteristic
    fan_characteristic,   \* HeadwindFan.fan_characteristic
    enableCount,          \* HeadwindFan.enableCount
    startCount,           \* HeadwindFan.startCount
    sendCount,            \* HeadwindFan.sendCount
    zeroCount,            \* zeroCount of each heart-rate device (NoneVal: not set)
    zeroRun,              \* zero samples each heart-rate device sent in a row
    hr,                   \* outcome of the last heart-rate sample handled
    logged,               \* records the module's logger has emitted
    use_kafka,            \* KafkaControlCommandHandler.use_kafka
    use_mqtt,             \* KafkaControlCommandHandler.use_mqtt
    kafka_client,         \* KafkaControlCommandHandler.kafka_client
    mqtt_client,          \* KafkaControlCommandHandler.mqtt_client
    running,              \* KafkaControlCommandHandler.running
    time_bound,           \* whether kafka_control_handler's global name time is bound
    io,                   \* pub/sub calls made by the last bridge call
    bres,                 \* outcome of the last bridge call
    race,                 \* the submit and the response of a two-thread run
    delivered,            \* value notifications delivered, where a run counts them
    published,            \* the reports published for them, in publish order
    ftms,                 \* KICKRDevice.ftms
    button,               \* the demo Button and its publish_loop thread
    ev,                   \* the step just taken
    out,                  \* MQTT publishes made by the step just taken
    calls                 \* transport calls made by the step just taken

chanVars == <<conn, ftms_control_point, indoor_bike_data, control_point,
              internal_value, new_internal_value, new_write_value,
              terminate_write, write_timeout_count, write_thread, threads,
              mq, gl, inflight, nwid, msgs, enableFails>>

dataVars == <<notifying, flags, vals, idle, dres>>

fanVars == <<enable_characteristic, fan_characteristic, enableCount,
             startCount, sendCount>>

\* the KICKR session's state that the fan session does not share
kickrVars == <<ftms_control_point, indoor_bike_data, control_point,
               internal_value, new_internal_value, new_write_value,
               terminate_write, write_timeout_count, write_thread, threads,
               mq, gl, enableFails>>

hrVars == <<zeroCount, zeroRun, hr>>

\* the state of the components that run beside the KICKR session
sessVars == <<logged>>

bridgeVars == <<use_kafka, use_mqtt, kafka_client, mqtt_client, running,
                time_bound, io, bres>>

raceVars == <<race>>

orderVars == <<delivered, published>>

serviceVars == <<ftms>>

buttonVars == <<button>>

extVars == <<hrVars, sessVars, bridgeVars, raceVars, orderVars, serviceVars,
             buttonVars>>

vars == <<chanVars, dataVars, fanVars, extVars, ev, out, calls>>

\* ------------------------------------------------- command codec/validator
\* Climber.on_message: INCLINE_MIN <= value <= INCLINE_MAX and value % 0.5 == 0
InclineValidStrict(v) == INCLINE_MIN <= v /\ v < INCLINE_MAX /\ v % 5 = 0
InclineValid(v) == INCLINE_MIN <= v /\ v <= INCLINE_MAX /\ v % 5 = 0

\* Resistance.on_message: RESISTANCE_MIN <= value <= RESISTANCE_MAX
ResistanceValid(v) == RESISTANCE_MIN <= v /\ v <= RESISTANCE_MAX

ValidAlways(d, v) == TRUE
Valid(d, v) == IF d = "climber" THEN InclineValid(v) ELSE ResistanceValid(v)

\* Python int(): truncation towards zero of a value given in tenths
RoundInt(v) == (v + 5) \div 10
TruncInt(v) == IF v >= 0 THEN v \div 10 ELSE -((-v) \div 10)

\* two's-complement 16-bit little-endian bytes of the incline in hundredths
convert_incline_to_op_value(v) ==
    LET u == ((v * 10) + 65536) % 65536
    IN  <<u % 256, u \div 256>>

InclineBytes(v) == <<INCLINE_CONTROL_OP_CODE>> \o convert_incline_to_op_value(v)
ResistanceBytes(v) == <<FTMS_SET_TARGET_RESISTANCE_LEVEL, TruncInt(v)>>
Encode(d, v) == IF d = "climber" THEN InclineBytes(v) ELSE ResistanceBytes(v)

report_topic(d) == IF d = "climber" THEN "incline/report" ELSE "resistance/report"

\* ------------------------------------------------------------ step effects
Step(kind, d, v, o, c) ==
    /\ ev' = [kind |-> kind, dev |-> d, char |-> "None", val |-> v, sub |-> 0,
              att |-> 0]
    /\ out' = o
    /\ calls' = c

\* a step that handles the answer to a request w: the characteristic the
\* answer is from, and the value, the command number and the write thread the
\* request carried
AnswerStep(kind, d, w, o, c) ==
    /\ ev' = [kind |-> kind, dev |-> d, char |-> w.char, val |-> w.val,
              sub |-> w.sub, att |-> w.att]
    /\ out' = o
    /\ calls' = c

\* a transport request; dev, att, sub and val record who issued it: the
\* sub-device, its write thread, and the number and value of the command the
\* bytes encode (0 and NoneVal for the session's own requests)
Request(op, char, bytes, d, att, sub, v) ==
    [op |-> op, char |-> char, bytes |-> bytes, dev |-> d, att |-> att,
     sub |-> sub, val |-> v]

\* requests pending at the same time that are otherwise equal are told apart
\* by id, the least number not in use among them
Fresh(req, pending) ==
    CHOOSE k \in 1..(Cardinality(pending) + 1) :
        /\ ([id |-> k] @@ req) \notin pending
        /\ \A j \in 1..(k - 1) : ([id |-> j] @@ req) \in pending

Tag(reqs, pending) ==
    { [id |-> Fresh(reqs[i], pending)] @@ reqs[i] : i \in 1..Len(reqs) }

\* the transport accepts the requests of one step, in order
Issue(reqs) ==
    /\ inflight' = inflight \cup Tag(reqs, inflight)
    /\ nwid' = nwid + Len(reqs)

\* SubDevice.control_point_response, lines 333 and 336: whom a response is for
AddressedUnmatched(d, char) == control_point[d] # "None"
Addressed(d, char) == control_point[d] # "None" /\ char = control_point[d]
Targets(char) == { d \in Devices : Addressed(d, char) }

\* ------------------------------------------------------ telemetry decoder
\* a decoded number is a fraction num/den; None has den = 0
NoneRat == [num |-> 0, den |-> 0]
Rat(n, d) == [num |-> n, den |-> d]

\* WahooData.flag_*, in the order reported_data assigns them
FlagNames ==
    <<"instantaneous_speed", "average_speed", "instantaneous_cadence",
      "average_cadence", "total_distance", "resistance_level",
      "instantaneous_power", "average_power", "expended_energy",
      "heart_rate", "metabolic_equivalent", "elapsed_time", "remaining_time">>
FlagSet == { FlagNames[i] : i \in 1..Len(FlagNames) }
\* the bit of the 16-bit flag field that reported_data tests for each flag
FlagPos ==
    [instantaneous_speed |-> 0, average_speed |-> 1,
     instantaneous_cadence |-> 2, average_cadence |-> 3, total_distance |-> 4,
     resistance_level |-> 5, instantaneous_power |-> 6, average_power |-> 7,
     expended_energy |-> 8, heart_rate |-> 9, metabolic_equivalent |-> 10,
     elapsed_time |-> 11, remaining_time |-> 12]

\* WahooData.pull_value: the reads, in order, each under its flag
Field(name, flag, width, kind) ==
    [name |-> name, flag |-> flag, width |-> width, kind |-> kind]
FieldsShortDistance ==
    <<Field("instantaneous_speed", "instantaneous_speed", 2, "speed"),
      Field("average_speed", "average_speed", 2, "speed"),
      Field("instantaneous_cadence", "instantaneous_cadence", 2, "tenth"),
      Field("average_cadence", "average_cadence", 2, "tenth"),
      Field("total_distance", "total_distance", 2, "int"),
      Field("resistance_level", "resistance_level", 2, "int"),
      Field("instantaneous_power", "instantaneous_power", 2, "int"),
      Field("average_power", "average_power", 2, "int"),
      Field("expended_energy_total", "expended_energy", 2, "sentinel"),
      Field("expended_energy_per_hour", "expended_energy", 2, "sentinel"),
      Field("expended_energy_per_minute", "expended_energy", 1, "sentinel"),
      Field("heart_rate", "heart_rate", 1, "int"),
      Field("metabolic_equivalent", "metabolic_equivalent", 1, "tenth"),
      Field("elapsed_time", "elapsed_time", 2, "int"),
      Field("remaining_time", "remaining_time", 2, "int")>>
Fields ==
    <<Field("instantaneous_speed", "instantaneous_speed", 2, "speed"),
      Field("average_speed", "average_speed", 2, "speed"),
      Field("instantaneous_cadence", "instantaneous_cadence", 2, "tenth"),
      Field("average_cadence", "average_cadence", 2, "tenth"),
      Field("total_distance", "total_distance", 3, "int"),
      Field("resistance_level", "resistance_level", 2, "int"),
      Field("instantaneous_power", "instantaneous_power", 2, "int"),
      Field("average_power", "average_power", 2, "int"),
      Field("expended_energy_total", "expended_energy", 2, "sentinel"),
      Field("expended_energy_per_hour", "expended_energy", 2, "sentinel"),
      Field("expended_energy_per_minute", "expended_energy", 1, "sentinel"),
      Field("heart_rate", "heart_rate", 1, "int"),
      Field("metabolic_equivalent", "metabolic_equivalent", 1, "tenth"),
      Field("elapsed_time", "elapsed_time", 2, "int"),
      Field("remaining_time", "remaining_time", 2, "int")>>
ValueSet == { Fields[i].name : i \in 1..Len(Fields) }

Pow2(k) == IF k = 0 THEN 1 ELSE IF k = 1 THEN 2 ELSE IF k = 2 THEN 4
           ELSE IF k = 3 THEN 8 ELSE IF k = 4 THEN 16 ELSE IF k = 5 THEN 32
           ELSE IF k = 6 THEN 64 ELSE 128
Bit(b, k) == (b \div Pow2(k)) % 2

\* WahooData.reported_data: one flag, from the two flag bytes
FlagOf(f, value) ==
    LET b == Bit(value[(FlagPos[f] \div 8) + 1], FlagPos[f] % 8)
    IN  IF f = "instantaneous_speed" THEN 1 - b ELSE b

\* WahooData.reported_data: value[0] and value[1] raise IndexError on a packet
\* that lacks them, after the assignments already made
reported_data(value) ==
    IF Len(value) = 0
      THEN [flags |-> flags, raised |-> "IndexError"]
    ELSE IF Len(value) = 1
      THEN [flags |-> [f \in FlagSet |->
                         IF FlagPos[f] < 8 THEN FlagOf(f, value) ELSE flags[f]],
            raised |-> "IndexError"]
    ELSE [flags |-> [f \in FlagSet |-> FlagOf(f, value)], raised |-> "none"]

\* little-endian unsigned integer of width bytes at a zero-based offset
Raw(value, offset, width) ==
    value[offset + 1]
    + (IF width >= 2 THEN value[offset + 2] * 256 ELSE 0)
    + (IF width >= 3 THEN value[offset + 3] * 65536 ELSE 0)

Sentinel(width) == IF width = 1 THEN 255 ELSE 65535

\* the value one read of pull_value assigns
Decoded(f, raw, old) ==
    IF f.kind = "speed" THEN Rat(raw * 5, 1800)
    ELSE IF f.kind = "tenth" THEN Rat(raw, 10)
    ELSE IF f.kind = "sentinel" /\ raw = Sentinel(f.width) THEN old
    ELSE Rat(raw, 1)

\* WahooData.pull_value, lines 531-610: the reads from field i on
RECURSIVE PullFrom(_, _, _, _, _)
PullFrom(i, offset, vs, value, fl) ==
    IF i > Len(Fields)
      THEN [vals |-> vs, offset |-> offset, raised |-> "none"]
    ELSE LET f == Fields[i]
         IN  IF fl[f.flag] # 1
               THEN PullFrom(i + 1, offset, vs, value, fl)
             ELSE IF offset + f.width > Len(value)
               THEN [vals |-> vs, offset |-> offset, raised |-> "IndexError"]
             ELSE PullFrom(i + 1, offset + f.width,
                           [vs EXCEPT ![f.name] =
                               Decoded(f, Raw(value, offset, f.width), @)],
                           value, fl)

\* WahooData.pull_value; parse_error is the check of lines 612-614, after
\* which the method returns as it would have anyway
pull_value(value, fl) ==
    LET r == PullFrom(1, 2, vals, value, fl)
    IN  [vals |-> r.vals, offset |-> r.offset, raised |-> r.raised,
         parse_error |-> (r.raised = "none" /\ r.offset # Len(value))]

\* WahooData.publish
publish(fl, vs) ==
    (IF fl["instantaneous_speed"] = 1
       THEN <<[topic |-> "speed", value |-> vs["instantaneous_speed"]]>>
       ELSE <<>>)
    \o (IF fl["instantaneous_cadence"] = 1
       THEN <<[topic |-> "cadence", value |-> vs["instantaneous_cadence"]]>>
       ELSE <<>>)
    \o (IF fl["instantaneous_power"] = 1
       THEN <<[topic |-> "power", value |-> vs["instantaneous_power"]]>>
       ELSE <<>>)

\* WahooData.publish_data: comparing None with 0 raises TypeError
publish_data_unsuppressed(fl, vs) ==
    IF vs["instantaneous_cadence"] = NoneRat
      THEN [idle |-> idle, out |-> <<>>, raised |-> "TypeError"]
      ELSE [idle |-> vs["instantaneous_cadence"].num <= 0,
            out |-> publish(fl, vs), raised |-> "none"]
publish_data(fl, vs) ==
    LET cadence == vs["instantaneous_cadence"]
    IN  IF cadence = NoneRat
          THEN [idle |-> idle, out |-> <<>>, raised |-> "TypeError"]
        ELSE IF cadence.num > 0
          THEN [idle |-> FALSE, out |-> publish(fl, vs), raised |-> "none"]
        ELSE IF ~ idle
          THEN [idle |-> TRUE, out |-> publish(fl, vs), raised |-> "none"]
        ELSE [idle |-> idle, out |-> <<>>, raised |-> "none"]

\* WahooData.process_data: reported_data, pull_value, publish_data, each run
\* only if the one before returned
Outcome(fl, vs, i, o, raised, parse_error, offset) ==
    [flags |-> fl, vals |-> vs, idle |-> i, out |-> o, raised |-> raised,
     parse_error |-> parse_error, offset |-> offset]

process_data(value) ==
    LET AfterPull(r, p) ==
            IF p.raised # "none"
              THEN Outcome(r.flags, p.vals, idle, <<>>, p.raised, FALSE, p.offset)
            ELSE LET Done(d) ==
                         Outcome(r.flags, p.vals, d.idle, d.out, d.raised,
                                 p.parse_error, p.offset)
                 IN  Done(publish_data(r.flags, p.vals))
        AfterFlags(r) ==
            IF r.raised # "none"
              THEN Outcome(r.flags, vals, idle, <<>>, r.raised, FALSE, 0)
            ELSE AfterPull(r, pull_value(value, r.flags))
    IN  AfterFlags(reported_data(value))

NoData == [packet |-> <<>>, handled |-> FALSE, raised |-> "none",
           parse_error |-> FALSE, offset |-> 0]

\* the GLib loop between callbacks
GlIdle == [pc |-> "idle", dev |-> "None", char |-> "None", val |-> NoneVal,
           sub |-> 0, att |-> 0]

\* ------------------------------------------------------ heart-rate devices
\* AnyDevice (heartrate_kafka.py) and TICKRDevice (smartbike.py)
HrDevices == {"any", "tickr"}

\* AnyDeviceManager.device_discovered sets zero_limit and zeroCount on the
\* AnyDevice it creates; nothing sets them on a TICKRDevice
ZERO_LIMIT == 10
NoSample == [dev |-> "None", heartrate |-> 0, disconnects |-> 0,
             published |-> FALSE, raised |-> "none"]
HrInit ==
    /\ zeroCount = [d \in HrDevices |-> IF d = "any" THEN 0 ELSE NoneVal]
    /\ zeroRun = [d \in HrDevices |-> 0]
    /\ hr = NoSample

\* the logger of smartbike.py: logger.setLevel(logging.INFO); a record is
\* emitted to the handlers when its level is at least the logger's
LOGGER_LEVEL == 20
LOG_DEBUG == 10
Emitted(level) == level >= LOGGER_LEVEL

\* ---------------------------------------------- Kafka/MQTT control bridge
NoCall == [call |-> "none", topic |-> <<>>, type |-> "None",
           value |-> NoneVal, raised |-> "none", caught |-> "none",
           device |-> "None", accepted |-> FALSE]

\* a process that constructs no KafkaControlCommandHandler
BridgeAbsent ==
    /\ use_kafka = FALSE
    /\ use_mqtt = FALSE
    /\ kafka_client = "None"
    /\ mqtt_client = "None"
    /\ running = FALSE
    /\ time_bound = FALSE
    /\ io = <<>>
    /\ bres = NoCall

\* no two-thread run singled out
NoRace == [start |-> [pending |-> NoneVal, committed |-> NoneVal,
                      count |-> 0, cancel |-> FALSE],
           v |-> NoneVal, resp |-> WRITE_SUCCESS]

OrderInit == delivered = 0 /\ published = <<>>

\* Button.__init__, lines 61-77, for the pin pulled down and not pressed; the
\* publish_loop thread is at its test of _to_publish
ButtonInit ==
    button = [pin |-> 0, to_publish |-> FALSE, state |-> 0, pc |-> "test",
              callbacks |-> 0, edges |-> 0, payload |-> "None"]

ExtInit ==
    HrInit /\ logged = <<>> /\ BridgeAbsent /\ race = NoRace /\ OrderInit /\ ButtonInit

\* ---------------------------------------------------------------- Init
ThreadIds == 1..MaxMsgs

KickrInit ==
    /\ conn = "connecting"
    /\ ftms = "None"
    /\ ftms_control_point = "None"
    /\ indoor_bike_data = "None"
    /\ control_point = [d \in Devices |-> "None"]
    /\ internal_value = [d \in Devices |-> NoneVal]
    /\ new_internal_value = [d \in Devices |-> NoneVal]
    /\ new_write_value = [d \in Devices |-> <<>>]
    /\ terminate_write = [d \in Devices |-> FALSE]
    /\ write_timeout_count = [d \in Devices |-> 0]
    /\ write_thread = [d \in Devices |-> 0]
    /\ threads = [d \in Devices |-> [n \in ThreadIds |-> "none"]]
    /\ mq = [pc |-> "idle", dev |-> "None"]
    /\ gl = GlIdle
    /\ inflight = {}
    /\ nwid = 0
    /\ msgs = 0
    /\ enableFails = 0
    /\ notifying = {}
    /\ flags = [f \in FlagSet |-> NoneVal]
    /\ vals = [f \in ValueSet |-> NoneRat]
    /\ idle = FALSE
    /\ dres = NoData
    /\ enable_characteristic = "None"
    /\ fan_characteristic = "None"
    /\ enableCount = 0
    /\ startCount = 0
    /\ sendCount = 0
    /\ ev = [kind |-> "init", dev |-> "None", char |-> "None", val |-> NoneVal,
             sub |-> 0, att |-> 0]
    /\ out = <<>>
    /\ calls = <<>>

Init == KickrInit /\ ExtInit

\* ------------------------------------------------------ connection lifecycle
\* WahooDevice.connect_succeeded
ConnectSucceeded ==
    /\ conn = "connecting"
    /\ conn' = "connected"
    /\ Step("connect_succeeded", "None", NoneVal, <<>>, <<>>)
    /\ UNCHANGED <<extVars, ftms_control_point, indoor_bike_data, control_point,
                   internal_value, new_internal_value, new_write_value,
                   terminate_write, write_timeout_count, write_thread, threads,
                   mq, gl, inflight, nwid, msgs, enableFails,
                   notifying, flags, vals, idle, dres, fanVars>>

\* WahooDevice.connect_failed: a debug record, then sys.exit()
ConnectFailed ==
    /\ conn = "connecting"
    /\ conn' = "exited"
    /\ logged' = IF Emitted(LOG_DEBUG)
                   THEN Append(logged, "Connection failed") ELSE logged
    /\ Step("connect_failed", "None", NoneVal, <<>>, <<>>)
    /\ UNCHANGED <<hrVars, bridgeVars, raceVars, orderVars, buttonVars, serviceVars,
                   ftms_control_point, indoor_bike_data, control_point,
                   internal_value, new_internal_value, new_write_value,
                   terminate_write, write_timeout_count, write_thread, threads,
                   mq, gl, inflight, nwid, msgs, enableFails,
                   notifying, flags, vals, idle, dres, fanVars>>

\* the transport calls of service resolution, in enumeration order
ResolveCalls(offered) ==
    (IF "ftms_control_point" \in offered
       THEN <<Request("write", "ftms_control_point", <<FTMS_REQUEST_CONTROL>>,
                      "session", 0, 0, NoneVal)>>
       ELSE <<>>)
    \o (IF "indoor_bike_data" \in offered
       THEN <<Request("enable", "indoor_bike_data", <<>>, "session", 0, 0, NoneVal)>>
       ELSE <<>>)
    \o (IF "incline_control" \in offered
       THEN <<Request("enable", "incline_control", <<>>, "climber", 0, 0, NoneVal)>>
       ELSE <<>>)

\* the characteristics of the Fitness Machine Service: a trainer that offers
\* one of them offers the service
FtmsCharacteristics == {"ftms_control_point", "indoor_bike_data"}

\* WahooDevice.disconnect_succeeded: an info record
LOG_INFO == 20
AfterDisconnectUnbound(table) == [d \in Devices |-> "None"]
AfterDisconnect(table) == table

\* the sub-devices' _internal_value after disconnect_succeeded
CommittedForgotten(values) == [d \in Devices |-> NoneVal]
CommittedKept(values) == values

DisconnectSucceeded ==
    /\ conn \in {"connected", "resolved"}
    /\ conn' = "disconnected"
    /\ control_point' = AfterDisconnect(control_point)
    /\ internal_value' = CommittedKept(internal_value)
    /\ logged' = IF Emitted(LOG_INFO)
                   THEN Append(logged, "Disconnected") ELSE logged
    /\ Step("disconnect_succeeded", "None", NoneVal, <<>>, <<>>)
    /\ UNCHANGED <<hrVars, bridgeVars, raceVars, orderVars, buttonVars, serviceVars,
                   ftms_control_point, indoor_bike_data,
                   new_internal_value, new_write_value,
                   terminate_write, write_timeout_count, write_thread, threads,
                   mq, gl, inflight, nwid, msgs, enableFails,
                   notifying, flags, vals, idle, dres, fanVars>>

\* WahooDevice.services_resolved with KICKRDevice.set_service_or_characteristic,
\* Climber.set_control_point and Resistance.set_control_point
ServicesResolved(offered) ==
    /\ conn = "connected"
    /\ conn' = "resolved"
    /\ ftms' = IF offered \cap FtmsCharacteristics # {} THEN "ftms" ELSE "None"
    /\ ftms_control_point' =
          IF "ftms_control_point" \in offered THEN "ftms_control_point" ELSE "None"
    /\ indoor_bike_data' =
          IF "indoor_bike_data" \in offered THEN "indoor_bike_data" ELSE "None"
    /\ control_point' =
          [climber |-> IF "incline_control" \in offered
                         THEN "incline_control" ELSE "None",
           resistance |-> ftms_control_point']
    /\ Issue(ResolveCalls(offered))
    /\ Step("services_resolved", "None", NoneVal, <<>>, ResolveCalls(offered))
    /\ UNCHANGED <<hrVars, sessVars, bridgeVars, raceVars, orderVars, buttonVars,
                   internal_value, new_internal_value, new_write_value,
                   terminate_write, write_timeout_count, write_thread, threads,
                   mq, gl, msgs, enableFails,
                   notifying, flags, vals, idle, dres, fanVars>>

\* ------------------------------------------------------- MQTT loop thread
\* SubDevice.write_value, line 370: the cancel flags after sub-device t sets
\* its own
CancelEvery(t) == [d \in Devices |-> TRUE]
Cancel(t) == [terminate_write EXCEPT ![t] = TRUE]

\* KICKRDevice.on_message -> Climber.on_message / Resistance.on_message, up to
\* and including the first two statements of SubDevice.write_value
OnMessage(t, v) ==
    /\ conn = "resolved"
    /\ mq.pc = "idle"
    /\ msgs < MaxMsgs
    /\ IF t \in Devices /\ Valid(t, v)
         THEN /\ msgs' = msgs + 1
              /\ new_internal_value' = [new_internal_value EXCEPT ![t] = v]
              /\ new_write_value' = [new_write_value EXCEPT ![t] = Encode(t, v)]
              /\ terminate_write' = Cancel(t)
              /\ mq' = [pc |-> "join", dev |-> t]
              /\ Step("submit", t, v, <<>>, <<>>)
         ELSE /\ UNCHANGED <<msgs, new_internal_value, new_write_value,
                             terminate_write, mq>>
              /\ Step(IF t \in Devices THEN "reject" ELSE "unrouted",
                      t, v, <<>>, <<>>)
    /\ UNCHANGED <<extVars, conn, ftms_control_point, indoor_bike_data, control_point,
                   internal_value, write_timeout_count, write_thread, threads,
                   gl, inflight, nwid, enableFails,
                   notifying, flags, vals, idle, dres, fanVars>>

\* Climber.on_message, lines 415-419, on a payload that is not a JSON object
\* with a numeric incline: what json.loads, value['incline'] or the range
\* comparison raises
MalformedPayloads ==
    {"not_json", "not_an_object", "no_incline_key", "incline_not_a_number"}
Raises(payload) ==
    IF payload = "not_json" THEN "JSONDecodeError"
    ELSE IF payload = "no_incline_key" THEN "KeyError"
    ELSE "TypeError"

\* KICKRDevice.on_message -> Climber.on_message with such a payload: nothing
\* catches the exception, which leaves the callback; the MQTT client library
\* then either goes on with its loop or ends the loop thread
OnMalformedMessage(payload) ==
    /\ conn = "resolved"
    /\ mq.pc = "idle"
    /\ mq' \in {mq, [pc |-> "dead", dev |-> "None"]}
    /\ Step(Raises(payload), "climber", NoneVal, <<>>, <<>>)
    /\ UNCHANGED <<extVars, conn, ftms_control_point, indoor_bike_data, control_point,
                   internal_value, new_internal_value, new_write_value,
                   terminate_write, write_timeout_count, write_thread, threads,
                   gl, inflight, nwid, msgs, enableFails,
                   notifying, flags, vals, idle, dres, fanVars>>

\* SubDevice.write_value, line 371: join() returns once the previous write
\* thread has finished
JoinSkipped(d) == TRUE
JoinReturns(d) ==
    IF write_thread[d] = 0 THEN TRUE
      ELSE threads[d][write_thread[d]] = "done"

WriteValueJoin ==
    /\ mq.pc = "join"
    /\ JoinReturns(mq.dev)
    /\ mq' = [mq EXCEPT !.pc = "reset"]
    /\ Step("join", mq.dev, NoneVal, <<>>, <<>>)
    /\ UNCHANGED <<extVars, conn, ftms_control_point, indoor_bike_data, control_point,
                   internal_value, new_internal_value, new_write_value,
                   terminate_write, write_timeout_count, write_thread, threads,
                   gl, inflight, nwid, msgs, enableFails,
                   notifying, flags, vals, idle, dres, fanVars>>

\* SubDevice.write_value, line 374
WriteValueReset ==
    /\ mq.pc = "reset"
    /\ terminate_write' = [terminate_write EXCEPT ![mq.dev] = FALSE]
    /\ mq' = [mq EXCEPT !.pc = "start"]
    /\ Step("reset", mq.dev, NoneVal, <<>>, <<>>)
    /\ UNCHANGED <<extVars, conn, ftms_control_point, indoor_bike_data, control_point,
                   internal_value, new_internal_value, new_write_value,
                   write_timeout_count, write_thread, threads,
                   gl, inflight, nwid, msgs, enableFails,
                   notifying, flags, vals, idle, dres, fanVars>>

Started(d) == { n \in ThreadIds : threads[d][n] # "none" }

\* the number of commands a sub-device has accepted so far
Submitted(d) ==
    Cardinality(Started(d)) + (IF mq.pc # "idle" /\ mq.dev = d THEN 1 ELSE 0)
Alive(d) == { n \in ThreadIds : threads[d][n] \in {"ready", "go"} }

\* SubDevice.write_value, lines 375-377
WriteValueStart ==
    /\ mq.pc = "start"
    /\ LET d == mq.dev
           n == Cardinality(Started(d)) + 1
       IN  /\ write_timeout_count' = [write_timeout_count EXCEPT ![d] = 0]
           /\ write_thread' = [write_thread EXCEPT ![d] = n]
           /\ threads' = [threads EXCEPT ![d][n] = "ready"]
           /\ Step("start", d, n, <<>>, <<>>)
    /\ mq' = [pc |-> "idle", dev |-> "None"]
    /\ UNCHANGED <<extVars, conn, ftms_control_point, indoor_bike_data, control_point,
                   internal_value, new_internal_value, new_write_value,
                   terminate_write, gl, inflight, nwid, msgs, enableFails,
                   notifying, flags, vals, idle, dres, fanVars>>

\* ------------------------------------------------------------ write thread
\* SubDevice.write_process, line 383
WriteAllowed(d) ==
    ~ (terminate_write[d] /\ write_timeout_count[d] >= TIMEOUT)

WriteProcessCheck(d, n) ==
    /\ threads[d][n] = "ready"
    /\ threads' = [threads EXCEPT ![d][n] =
                      IF WriteAllowed(d) THEN "go" ELSE "done"]
    /\ Step("check", d, n, <<>>, <<>>)
    /\ UNCHANGED <<extVars, conn, ftms_control_point, indoor_bike_data, control_point,
                   internal_value, new_internal_value, new_write_value,
                   terminate_write, write_timeout_count, write_thread,
                   mq, gl, inflight, nwid, msgs, enableFails,
                   notifying, flags, vals, idle, dres, fanVars>>

\* SubDevice.write_process, line 384; an unbound control point raises
\* AttributeError, which ends the thread
WriteProcessWrite(d, n) ==
    /\ threads[d][n] = "go"
    /\ threads' = [threads EXCEPT ![d][n] = "done"]
    /\ IF control_point[d] = "None"
         THEN /\ UNCHANGED <<inflight, nwid>>
              /\ Step("thread_error", d, n, <<>>, <<>>)
         ELSE LET reqs == <<Request("write", control_point[d],
                                    new_write_value[d], d, n,
                                    Submitted(d), new_internal_value[d])>>
              IN  /\ Issue(reqs)
                  /\ Step("thread_write", d, n, <<>>, reqs)
    /\ UNCHANGED <<extVars, conn, ftms_control_point, indoor_bike_data, control_point,
                   internal_value, new_internal_value, new_write_value,
                   terminate_write, write_timeout_count, write_thread,
                   mq, gl, msgs, enableFails,
                   notifying, flags, vals, idle, dres, fanVars>>

\* --------------------------------------------- GLib loop: acknowledgements
\* SubDevice.control_point_response, lines 338-360: the committed value a
\* response of the given type leaves
ResponseValueEager(d, response_type) ==
    IF response_type \in {WRITE_SUCCESS, WRITE_FAIL}
      THEN new_internal_value[d] ELSE internal_value[d]
ResponseValue(d, response_type) ==
    IF response_type = WRITE_SUCCESS
      THEN new_internal_value[d] ELSE internal_value[d]

\* SubDevice.report
reportPrevious(d) == <<[topic |-> report_topic(d), value |-> internal_value[d]]>>
report(d) == <<[topic |-> report_topic(d), value |-> internal_value'[d]]>>

\* characteristic_write_value_succeeded -> control_point_response(WRITE_SUCCESS),
\* up to line 341
WriteSucceeded(w) ==
    /\ gl.pc = "idle"
    /\ w \in inflight /\ w.op = "write"
    /\ inflight' = inflight \ {w}
    /\ IF Targets(w.char) = {}
         THEN /\ UNCHANGED <<terminate_write, gl>>
              /\ AnswerStep("write_succeeded_ignored", "None", w,
                            <<>>, <<>>)
         ELSE LET d == CHOOSE x \in Targets(w.char) : TRUE
              IN  /\ terminate_write' = [terminate_write EXCEPT ![d] = TRUE]
                  /\ gl' = [pc |-> "commit", dev |-> d, char |-> w.char,
                            val |-> w.val, sub |-> w.sub, att |-> w.att]
                  /\ AnswerStep("write_succeeded", d, w, <<>>, <<>>)
    /\ UNCHANGED <<extVars, conn, ftms_control_point, indoor_bike_data, control_point,
                   internal_value, new_internal_value, new_write_value,
                   write_timeout_count, write_thread, threads,
                   mq, nwid, msgs, enableFails,
                   notifying, flags, vals, idle, dres, fanVars>>

\* control_point_response(WRITE_SUCCESS), lines 342-346
WriteSucceededCommit ==
    /\ gl.pc = "commit"
    /\ internal_value' = [internal_value EXCEPT ![gl.dev] =
                             ResponseValue(gl.dev, WRITE_SUCCESS)]
    /\ gl' = GlIdle
    /\ AnswerStep("commit", gl.dev, gl, report(gl.dev), <<>>)
    /\ UNCHANGED <<extVars, conn, ftms_control_point, indoor_bike_data, control_point,
                   new_internal_value, new_write_value,
                   terminate_write, write_timeout_count, write_thread, threads,
                   mq, inflight, nwid, msgs, enableFails,
                   notifying, flags, vals, idle, dres, fanVars>>

\* characteristic_write_value_failed -> control_point_response(WRITE_FAIL)
WriteFailed(w) ==
    /\ gl.pc = "idle"
    /\ w \in inflight /\ w.op = "write"
    /\ inflight' = inflight \ {w}
    /\ IF Targets(w.char) = {}
         THEN /\ UNCHANGED <<write_timeout_count, internal_value>>
              /\ AnswerStep("write_failed_ignored", "None", w,
                            <<>>, <<>>)
         ELSE LET d == CHOOSE x \in Targets(w.char) : TRUE
              IN  /\ write_timeout_count' =
                        [write_timeout_count EXCEPT ![d] = @ + 1]
                  /\ internal_value' = [internal_value EXCEPT ![d] =
                                           ResponseValue(d, WRITE_FAIL)]
                  /\ AnswerStep("write_failed", d, w, <<>>, <<>>)
    /\ UNCHANGED <<extVars, conn, ftms_control_point, indoor_bike_data, control_point,
                   new_internal_value, new_write_value,
                   terminate_write, write_thread, threads,
                   mq, gl, nwid, msgs, enableFails,
                   notifying, flags, vals, idle, dres, fanVars>>

\* characteristic_enable_notification_succeeded ->
\* control_point_response(NOTIFICATION_SUCCESS)
EnableSucceeded(w) ==
    /\ gl.pc = "idle"
    /\ w \in inflight /\ w.op = "enable"
    /\ inflight' = inflight \ {w}
    /\ AnswerStep("enable_succeeded",
                  IF Targets(w.char) = {} THEN "None"
                    ELSE CHOOSE x \in Targets(w.char) : TRUE,
                  w, <<>>, <<>>)
    /\ notifying' = notifying \cup {w.char}
    /\ UNCHANGED <<extVars, conn, ftms_control_point, indoor_bike_data, control_point,
                   internal_value, new_internal_value, new_write_value,
                   terminate_write, write_timeout_count, write_thread, threads,
                   mq, gl, nwid, msgs, enableFails,
                   flags, vals, idle, dres, fanVars>>

\* SubDevice.control_point_response, line 360: the owner enables again
ReenableNever(d) == <<>>
Reenable(d) ==
    <<Request("enable", control_point[d], <<>>, d, 0, 0, NoneVal)>>

\* characteristic_enable_notification_failed ->
\* control_point_response(NOTIFICATION_FAIL), while the transport has failed
\* fewer than limit requests
EnableFailedWithin(w, limit) ==
    /\ gl.pc = "idle"
    /\ w \in inflight /\ w.op = "enable"
    /\ enableFails < limit
    /\ enableFails' = enableFails + 1
    /\ IF Targets(w.char) = {}
         THEN /\ inflight' = inflight \ {w}
              /\ UNCHANGED nwid
              /\ AnswerStep("enable_failed_ignored", "None", w, <<>>, <<>>)
         ELSE LET d == CHOOSE x \in Targets(w.char) : TRUE
                  reqs == Reenable(d)
              IN  /\ inflight' = (inflight \ {w}) \cup Tag(reqs, inflight \ {w})
                  /\ nwid' = nwid + 1
                  /\ AnswerStep("enable_failed", d, w, <<>>, reqs)
    /\ UNCHANGED <<extVars, conn, ftms_control_point, indoor_bike_data, control_point,
                   internal_value, new_internal_value, new_write_value,
                   terminate_write, write_timeout_count, write_thread, threads,
                   mq, gl, msgs,
                   notifying, flags, vals, idle, dres, fanVars>>

EnableFailed(w) == EnableFailedWithin(w, MaxEnableFails)

\* ------------------------------------------- GLib loop: value notifications
\* KICKRDevice.characteristic_value_updated -> WahooData.process_data
\* what the handler does to the session
ValueUpdated(characteristic, value) ==
    /\ gl.pc = "idle"
    /\ characteristic \in notifying
    /\ IF characteristic = indoor_bike_data
         THEN \E r \in {process_data(value)} :
                  /\ flags' = r.flags
                  /\ vals' = r.vals
                  /\ idle' = r.idle
                  /\ dres' = [packet |-> value, handled |-> TRUE,
                              raised |-> r.raised,
                              parse_error |-> r.parse_error,
                              offset |-> r.offset]
                  /\ Step("value_updated", "None", NoneVal, r.out, <<>>)
         ELSE /\ UNCHANGED <<flags, vals, idle, dres>>
              /\ Step("value_updated_ignored", "None", NoneVal, <<>>, <<>>)
    /\ UNCHANGED <<chanVars, notifying, fanVars>>

CharacteristicValueUpdated(characteristic, value) ==
    /\ ValueUpdated(characteristic, value)
    /\ UNCHANGED extVars

\* KICKRDevice.publish and mqtt_client.publish: every report is handed to the
\* MQTT client as it is made, after the ones handed over before
PublishedAhead(history, reports) == reports \o history
Published(history, reports) == history \o reports

\* the same handler in a run that numbers the notifications in delivery order
\* and keeps the history of the reports published
NotificationDelivered(characteristic, value, limit) ==
    /\ delivered < limit
    /\ ValueUpdated(characteristic, value)
    /\ delivered' = delivered + 1
    /\ published' =
          Published(published,
                    [i \in 1..Len(out') |->
                        [n |-> delivered', topic |-> out'[i].topic]])
    /\ UNCHANGED <<hrVars, sessVars, bridgeVars, raceVars, serviceVars,
                   buttonVars>>

\* ------------------------------------------------------------ specification
DeviceProfiles ==
    { {"ftms_control_point", "indoor_bike_data", "incline_control"},
      {"ftms_control_point", "indoor_bike_data"},
      {"indoor_bike_data"} }

\* the packet the trainer notifies in the full session: speed 2, cadence 3
SessionPackets == { <<4, 0, 2, 0, 3, 0>> }

Next ==
    \/ ConnectSucceeded
    \/ ConnectFailed
    \/ \E offered \in DeviceProfiles : ServicesResolved(offered)
    \/ \E t \in Devices : \E v \in CommandValues[t] : OnMessage(t, v)
    \/ OnMessage("other", 0)
    \/ \E payload \in MalformedPayloads : OnMalformedMessage(payload)
    \/ WriteValueJoin
    \/ WriteValueReset
    \/ WriteValueStart
    \/ \E d \in Devices : \E n \in ThreadIds : WriteProcessCheck(d, n)
    \/ \E d \in Devices : \E n \in ThreadIds : WriteProcessWrite(d, n)
    \/ \E w \in inflight : WriteSucceeded(w)
    \/ WriteSucceededCommit
    \/ \E w \in inflight : WriteFailed(w)
    \/ \E w \in inflight : EnableSucceeded(w)
    \/ \E w \in inflight : EnableFailed(w)
    \/ \E c \in notifying : \E p \in SessionPackets :
          CharacteristicValueUpdated(c, p)

Spec == Init /\ [][Next]_vars

\* the packet length the flag field of an Indoor Bike Data packet implies
RECURSIVE WidthsFrom(_, _)
WidthsFrom(i, value) ==
    IF i > Len(Fields) THEN 0
    ELSE (IF FlagOf(Fields[i].flag, value) = 1 THEN Fields[i].width ELSE 0)
         + WidthsFrom(i + 1, value)
ImpliedLength(value) == 2 + WidthsFrom(1, value)

\* ---- the decoder on its own: the trainer offers only Indoor Bike Data, and
\* its notifications have been enabled
MaxBodyLen == 4
DataBytes == {0, 3}
DataFlagBytes == { <<0, 0>>, <<1, 0>>, <<4, 0>>, <<5, 0>>, <<65, 0>>, <<5, 2>> }

\* packet bodies of at most n bytes: low bytes from DataBytes, high bytes 0
RECURSIVE Bodies(_)
Bodies(n) ==
    IF n = 0 THEN { <<>> }
    ELSE LET shorter == Bodies(n - 1)
         IN  shorter \cup
             { Append(q, b) : q \in { x \in shorter : Len(x) = n - 1 },
                              b \in IF n % 2 = 1 THEN DataBytes ELSE {0} }

DataPackets ==
    { <<>>, <<0>>, <<4>> }
    \cup { fb \o body : fb \in DataFlagBytes, body \in Bodies(MaxBodyLen) }

InitData ==
    /\ conn = "resolved"
    /\ ftms = "ftms"
    /\ ftms_control_point = "None"
    /\ indoor_bike_data = "indoor_bike_data"
    /\ control_point = [d \in Devices |-> "None"]
    /\ internal_value = [d \in Devices |-> NoneVal]
    /\ new_internal_value = [d \in Devices |-> NoneVal]
    /\ new_write_value = [d \in Devices |-> <<>>]
    /\ terminate_write = [d \in Devices |-> FALSE]
    /\ write_timeout_count = [d \in Devices |-> 0]
    /\ write_thread = [d \in Devices |-> 0]
    /\ threads = [d \in Devices |-> [n \in ThreadIds |-> "none"]]
    /\ mq = [pc |-> "idle", dev |-> "None"]
    /\ gl = GlIdle
    /\ inflight = {}
    /\ nwid = 1
    /\ msgs = 0
    /\ enableFails = 0
    /\ notifying = {"indoor_bike_data"}
    /\ flags = [f \in FlagSet |-> NoneVal]
    /\ vals = [f \in ValueSet |-> NoneRat]
    /\ idle = FALSE
    /\ dres = NoData
    /\ enable_characteristic = "None"
    /\ fan_characteristic = "None"
    /\ enableCount = 0
    /\ startCount = 0
    /\ sendCount = 0
    /\ ExtInit
    /\ ev = [kind |-> "enable_succeeded", dev |-> "None",
             char |-> "indoor_bike_data", val |-> NoneVal, sub |-> 0,
             att |-> 0]
    /\ out = <<>>
    /\ calls = <<>>

NextData ==
    \E p \in DataPackets : CharacteristicValueUpdated("indoor_bike_data", p)

SpecData == InitData /\ [][NextData]_vars

\* ---- heart-rate samples
MaxZeroRun == 21

\* Heart Rate Measurement packets: flag byte (bit 0: 16-bit value), value
HrPackets == { <<0, 0>>, <<0, 70>>, <<1, 0, 0>>, <<1, 70, 0>>, <<1, 0, 1>> }

\* the heart rate a packet carries
HeartRateOf(value) ==
    IF value[1] % 2 = 1 THEN value[2] + 256 * value[3] ELSE value[2]

\* the environment's count of zero samples in a row
Counted(d, value) ==
    /\ HeartRateOf(value) = 0 => zeroRun[d] < MaxZeroRun
    /\ zeroRun' = [zeroRun EXCEPT ![d] =
                     IF HeartRateOf(value) = 0 THEN @ + 1 ELSE 0]

\* AnyDevice.characteristic_value_updated (heartrate_kafka.py)
AnyDeviceValueUpdated(value) ==
    /\ Counted("any", value)
    /\ LET heartrate == value[2]
           limit == heartrate = 0 /\ zeroCount["any"] + 1 = ZERO_LIMIT
       IN  /\ zeroCount' = [zeroCount EXCEPT !["any"] =
                              IF heartrate # 0 \/ limit THEN 0 ELSE @ + 1]
           /\ hr' = [dev |-> "any", heartrate |-> HeartRateOf(value),
                     disconnects |-> IF limit THEN 1 ELSE 0,
                     published |-> heartrate # 0, raised |-> "none"]
    /\ UNCHANGED <<chanVars, dataVars, fanVars, sessVars, bridgeVars, raceVars,
                   orderVars, buttonVars, serviceVars,
                   ev, out, calls>>

\* TICKRDevice.characteristic_value_updated (smartbike.py), for the heart
\* rate characteristic: reading zeroCount before it was assigned, or
\* zero_limit at all, raises AttributeError
TICKRValueUpdated(value) ==
    /\ Counted("tickr", value)
    /\ LET heartrate == HeartRateOf(value)
       IN  IF heartrate = 0
             THEN /\ hr' = [dev |-> "tickr", heartrate |-> heartrate,
                            disconnects |-> 0, published |-> FALSE,
                            raised |-> "AttributeError"]
                  /\ UNCHANGED zeroCount
             ELSE /\ zeroCount' = [zeroCount EXCEPT !["tickr"] = 0]
                  /\ hr' = [dev |-> "tickr", heartrate |-> heartrate,
                            disconnects |-> 0, published |-> TRUE,
                            raised |-> "none"]
    /\ UNCHANGED <<chanVars, dataVars, fanVars, sessVars, bridgeVars, raceVars,
                   orderVars, buttonVars, serviceVars,
                   ev, out, calls>>

NextHeart ==
    \/ \E value \in HrPackets : AnyDeviceValueUpdated(value)
    \/ \E value \in HrPackets : TICKRValueUpdated(value)

SpecHeart == Init /\ [][NextHeart]_vars

\* the layout of Indoor Bike Data as the specification gives it: the width of
\* the field of each flag bit, in order; bit 0 clear means speed is present
LayoutWidths == <<2, 2, 2, 2, 3, 2, 2, 2, 5, 1, 1, 2, 2>>
FlagWord(value) == value[1] + 256 * value[2]
Present(k, value) ==
    LET b == (FlagWord(value) \div (2 ^ k)) % 2
    IN  IF k = 0 THEN b = 0 ELSE b = 1
RECURSIVE LayoutOffset(_, _)
\* the offset at which the field of bit k starts (k = 13: where the last ends)
LayoutOffset(k, value) ==
    IF k = 0 THEN 2
    ELSE LayoutOffset(k - 1, value)
         + (IF Present(k - 1, value) THEN LayoutWidths[k] ELSE 0)

\* ---- the packet layout: the first packet of a session, one packet built
\* for every subset of the 13 flag bits
FlagWords == 0..8191

\* body byte number i (from 1) of a built packet
BodyByte(i) == (i * 37 + 11) % 256

\* the packet a trainer builds for a flag word: two flag bytes, then the bytes
\* of the fields the word marks present
BuiltPacket(word) ==
    LET fb == <<word % 256, word \div 256>>
        n == LayoutOffset(13, fb) - 2
    IN  fb \o [i \in 1..n |-> BodyByte(i)]

NextLayout ==
    /\ ~ dres.handled
    /\ \E word \in FlagWords :
          CharacteristicValueUpdated("indoor_bike_data", BuiltPacket(word))

SpecLayout == InitData /\ [][NextLayout]_vars

\* ---------------------------------------------------------- Headwind fan
FAN_ENABLE_BYTES == <<32, 238, 252>>
FAN_START_BYTES == <<4, 4>>

\* the values a fan command can carry (tenths)
FanValues == {-10, -5, 500, 1005, 1010}

\* HeadwindFan.on_message, line 756, applied to fan_power = int(value)
FanPowerValid(fan_power) == FAN_LOW <= fan_power /\ fan_power <= FAN_HIGH

\* HeadwindFan.set_service_or_characteristic under services_resolved
FanResolveCalls(offered) ==
    (IF "e002" \in offered
       THEN <<Request("enable", "e002", <<>>, "fan", 0, 0, NoneVal),
              Request("write", "e002", FAN_ENABLE_BYTES, "fan", 0, 0, NoneVal)>>
       ELSE <<>>)
    \o (IF "e038" \in offered
       THEN <<Request("enable", "e038", <<>>, "fan", 0, 0, NoneVal)>>
       ELSE <<>>)

FanServicesResolved(offered) ==
    /\ conn = "connected"
    /\ conn' = "resolved"
    /\ enable_characteristic' = IF "e002" \in offered THEN "e002" ELSE "None"
    /\ fan_characteristic' = IF "e038" \in offered THEN "e038" ELSE "None"
    /\ Issue(FanResolveCalls(offered))
    /\ Step("services_resolved", "fan", NoneVal, <<>>, FanResolveCalls(offered))
    /\ UNCHANGED <<extVars, kickrVars, dataVars, msgs, enableCount, startCount, sendCount>>

\* HeadwindFan: each stage of the handshake is written until three of its
\* writes have been acknowledged (the tests "Count < 3")
RepeatsOnce(count) == count < 1
Repeats(count) == count < 3

\* HeadwindFan.on_message on the fan command topic: the write it makes, or
\* the error it raises (a characteristic not bound, self.speed never assigned)
FanCommandWrite ==
    IF Repeats(enableCount)
      THEN IF enable_characteristic = "None" THEN <<>>
           ELSE <<Request("write", enable_characteristic, FAN_ENABLE_BYTES,
                          "fan", 0, 0, NoneVal)>>
    ELSE IF Repeats(startCount)
      THEN IF fan_characteristic = "None" THEN <<>>
           ELSE <<Request("write", fan_characteristic, FAN_START_BYTES,
                          "fan", 0, 0, NoneVal)>>
    ELSE <<>>

FanOnMessage(v) ==
    /\ conn = "resolved"
    /\ msgs < MaxMsgs
    /\ IF FanPowerValid(TruncInt(v))
         THEN /\ msgs' = msgs + 1
              /\ Issue(FanCommandWrite)
              /\ Step(IF FanCommandWrite = <<>> THEN "fan_error" ELSE "fan_submit",
                      "fan", v, <<>>, FanCommandWrite)
         ELSE /\ UNCHANGED <<msgs, inflight, nwid>>
              /\ Step("fan_reject", "fan", v, <<>>, <<>>)
    /\ UNCHANGED <<extVars, conn, kickrVars, dataVars, fanVars>>

\* HeadwindFan.characteristic_write_value_succeeded: both if statements, in
\* order; a write to an unbound characteristic, or of self.speed, raises
\* before the count is incremented
FanWriteSucceeded(w) ==
    /\ w \in inflight /\ w.op = "write" /\ w.dev = "fan"
    /\ LET onEnable == w.char = enable_characteristic
           e1 == onEnable /\ Repeats(enableCount)
           s1 == onEnable /\ ~ e1 /\ Repeats(startCount)
           raised1 == s1 /\ fan_characteristic = "None"
           ec == IF e1 THEN enableCount + 1 ELSE enableCount
           sc1 == IF s1 /\ ~ raised1 THEN startCount + 1 ELSE startCount
           c1 == IF e1 THEN <<Request("write", enable_characteristic,
                                      FAN_ENABLE_BYTES, "fan", 0, 0, NoneVal)>>
                 ELSE IF s1 /\ ~ raised1
                   THEN <<Request("write", fan_characteristic,
                                  FAN_START_BYTES, "fan", 0, 0, NoneVal)>>
                 ELSE <<>>
           onFan == ~ raised1 /\ w.char = fan_characteristic
           s2 == onFan /\ Repeats(sc1)
           raised2 == onFan /\ ~ s2 /\ Repeats(sendCount)
           sc2 == IF s2 THEN sc1 + 1 ELSE sc1
           c2 == IF s2 THEN <<Request("write", fan_characteristic,
                                      FAN_START_BYTES, "fan", 0, 0, NoneVal)>>
                 ELSE <<>>
       IN  /\ enableCount' = ec
           /\ startCount' = sc2
           /\ inflight' = (inflight \ {w}) \cup Tag(c1 \o c2, inflight \ {w})
           /\ nwid' = nwid + Len(c1 \o c2)
           /\ Step(IF raised1 \/ raised2 THEN "fan_error" ELSE "fan_write_succeeded",
                   "fan", NoneVal, <<>>, c1 \o c2)
    /\ UNCHANGED <<extVars, conn, kickrVars, dataVars, msgs, enable_characteristic,
                   fan_characteristic, sendCount>>

\* WahooDevice.characteristic_write_value_failed and the two enable-notification
\* callbacks: WahooDevice.control_point_response does nothing
FanResponseIgnored(w) ==
    /\ w \in inflight /\ w.dev = "fan"
    /\ inflight' = inflight \ {w}
    /\ Step("fan_response_ignored", "fan", NoneVal, <<>>, <<>>)
    /\ UNCHANGED <<extVars, conn, kickrVars, dataVars, fanVars, nwid, msgs>>

FanProfiles == SUBSET {"e002", "e038"}

NextFan ==
    \/ ConnectSucceeded
    \/ ConnectFailed
    \/ \E offered \in FanProfiles : FanServicesResolved(offered)
    \/ \E v \in FanValues : FanOnMessage(v)
    \/ \E w \in inflight : FanWriteSucceeded(w)
    \/ \E w \in inflight : FanResponseIgnored(w)

SpecFan == Init /\ [][NextFan]_vars

\* ---- the incline validator on its own: a trainer with a KICKR Climb only,
\* and incline commands around both ends of the range
InclineInputs ==
    { INCLINE_MIN - 5, INCLINE_MIN - 3, INCLINE_MIN, INCLINE_MIN + 3,
      INCLINE_MIN + 5, 0, INCLINE_MAX - 5, INCLINE_MAX - 3, INCLINE_MAX,
      INCLINE_MAX + 3, INCLINE_MAX + 5 }

NextCodec ==
    \/ ConnectSucceeded
    \/ ConnectFailed
    \/ ServicesResolved({"incline_control"})
    \/ \E v \in InclineInputs : OnMessage("climber", v)
    \/ WriteValueJoin
    \/ WriteValueReset
    \/ WriteValueStart
    \/ \E n \in ThreadIds : WriteProcessCheck("climber", n)
    \/ \E n \in ThreadIds : WriteProcessWrite("climber", n)
    \/ \E w \in inflight : WriteSucceeded(w)
    \/ WriteSucceededCommit
    \/ \E w \in inflight : WriteFailed(w)
    \/ \E w \in inflight : EnableSucceeded(w)
    \/ \E w \in inflight : EnableFailed(w)

SpecCodec == Init /\ [][NextCodec]_vars

\* ---- one Control Channel in the whole trainer: every characteristic
\* resolved, telemetry running, commands for the Climber only
ClimberProfile == {"ftms_control_point", "indoor_bike_data", "incline_control"}

NextClimber ==
    \/ ConnectSucceeded
    \/ ConnectFailed
    \/ ServicesResolved(ClimberProfile)
    \/ \E v \in CommandValues["climber"] : OnMessage("climber", v)
    \/ WriteValueJoin
    \/ WriteValueReset
    \/ WriteValueStart
    \/ \E n \in ThreadIds : WriteProcessCheck("climber", n)
    \/ \E n \in ThreadIds : WriteProcessWrite("climber", n)
    \/ \E w \in inflight : WriteSucceeded(w)
    \/ WriteSucceededCommit
    \/ \E w \in inflight : WriteFailed(w)
    \/ \E w \in inflight : EnableSucceeded(w)
    \/ \E w \in inflight : EnableFailed(w)
    \/ \E c \in notifying : \E p \in SessionPackets :
          CharacteristicValueUpdated(c, p)

SpecClimber == Init /\ [][NextClimber]_vars

\* ---- the control bridge: KafkaControlCommandHandler (kafka_control_handler.py)
\* and ControlCommandPublisher (control_commands.py), which keeps the same
\* four fields
ControlTypes == {"incline", "resistance", "fan"}

\* a payload value that is not a number; NoneVal is a missing value key.
\* Numbers are in tenths, as the commands of the trainer are: -11, 5, 5.3, 20
\* and 101
TextVal == -9998
BridgeValues == {-110, 50, 53, 200, 1010}
Numeric(v) == v \notin {NoneVal, TextVal}

\* an integer, which is what the pattern [-+]?\d+$ of on_mqtt_message admits
Whole(v) == Numeric(v) /\ v % 10 = 0

\* the range checks of execute_control_command
BridgeValid(control_type, v) ==
    IF control_type = "incline"
      THEN ~ (v > INCLINE_MAX \/ v < INCLINE_MIN)
    ELSE IF control_type = "resistance"
      THEN ~ (v > RESISTANCE_MAX \/ v < RESISTANCE_MIN)
    ELSE ~ (v > 1000 \/ v < 0)

\* the guards of publish_report and start_consuming
KafkaOnAlways == TRUE
KafkaOn == use_kafka /\ kafka_client # "None"
MqttOn == use_mqtt /\ mqtt_client # "None"

Call(transport, op, control_type, message, ok) ==
    [transport |-> transport, op |-> op, type |-> control_type,
     message |-> message, ok |-> ok]

\* the two publishes of publish_report and of publish_fan_control: Kafka
\* first; KafkaClient.publish re-raises a KafkaError, which skips the rest
Publishes(op, control_type, message, kfail, mfail) ==
    LET k == IF KafkaOn
               THEN <<Call("kafka", op, control_type, message, ~ kfail)>>
               ELSE <<>>
        kraised == KafkaOn /\ kfail
        m == IF ~ kraised /\ MqttOn
               THEN <<Call("mqtt", op, control_type, message, ~ mfail)>>
               ELSE <<>>
    IN  [io |-> k \o m,
         raised |-> IF kraised THEN "KafkaError"
                    ELSE IF MqttOn /\ mfail THEN "MQTTError" ELSE "none"]

\* KafkaControlCommandHandler.publish_report: line 203 reads the global time
publish_report(control_type, message, kfail, mfail) ==
    IF ~ time_bound THEN [io |-> <<>>, raised |-> "NameError"]
    ELSE Publishes("report", control_type, message, kfail, mfail)

\* KafkaControlCommandHandler.execute_control_command: comparing a value that
\* is not a number raises TypeError; whatever the try block raises is caught
\* at line 195 and reported by a second publish_report, outside the try
execute_control_command(control_type, value, kfail, mfail) ==
    IF control_type \notin ControlTypes
      THEN [io |-> <<>>, raised |-> "none", caught |-> "none",
            device |-> "None", accepted |-> FALSE]
    ELSE LET ok == Numeric(value) /\ BridgeValid(control_type, value)
             first == IF ~ Numeric(value)
                        THEN [io |-> <<>>, raised |-> "TypeError"]
                        ELSE publish_report(control_type,
                                            IF ok THEN "set" ELSE "skip",
                                            kfail, mfail)
             again == IF first.raised = "none"
                        THEN [io |-> <<>>, raised |-> "none"]
                        ELSE publish_report(control_type, "error",
                                            kfail, mfail)
         IN  [io |-> first.io \o again.io,
              raised |-> again.raised,
              caught |-> first.raised,
              device |-> IF ok /\ control_type # "fan"
                           THEN control_type ELSE "None",
              accepted |-> ok]

\* the state after KafkaControlCommandHandler.__init__: a client exists only
\* for an enabled transport, the MQTT client only with credentials in the
\* environment; both setups subscribe to the three control topics. The name
\* time is bound only when the module runs as a script (line 259).
BridgeInit ==
    /\ use_kafka \in BOOLEAN
    /\ use_mqtt \in BOOLEAN
    /\ kafka_client = IF use_kafka THEN "KafkaClient" ELSE "None"
    /\ \E credentials \in BOOLEAN :
          mqtt_client = IF use_mqtt /\ credentials THEN "MQTTClient" ELSE "None"
    /\ running = FALSE
    /\ time_bound \in BOOLEAN
    /\ io = (IF kafka_client # "None"
               THEN <<Call("kafka", "subscribe", "all", "", TRUE)>> ELSE <<>>)
            \o (IF mqtt_client # "None"
               THEN <<Call("mqtt", "subscribe", "all", "", TRUE)>> ELSE <<>>)
    /\ bres = NoCall

InitBridge ==
    /\ KickrInit /\ HrInit /\ logged = <<>> /\ BridgeInit /\ race = NoRace
    /\ OrderInit /\ ButtonInit

BridgeStep(call, control_type, value, r) ==
    /\ io' = r.io
    /\ bres' = [call |-> call,
                topic |-> IF "topic" \in DOMAIN r THEN r.topic ELSE <<>>,
                type |-> control_type, value |-> value,
                raised |-> r.raised, caught |-> r.caught,
                device |-> r.device, accepted |-> r.accepted]
    /\ UNCHANGED <<use_kafka, use_mqtt, kafka_client, mqtt_client, time_bound,
                   chanVars, dataVars, fanVars, hrVars, sessVars, raceVars,
                   orderVars, buttonVars, serviceVars,
                   ev, out, calls>>

\* KafkaControlCommandHandler.start_consuming
StartConsuming ==
    /\ running' = TRUE
    /\ BridgeStep("start_consuming", "None", NoneVal,
          [io |-> (IF KafkaOn
                     THEN <<Call("kafka", "consume", "all", "", TRUE)>>
                     ELSE <<>>)
                  \o (IF MqttOn
                     THEN <<Call("mqtt", "loop_start", "all", "", TRUE)>>
                     ELSE <<>>),
           raised |-> "none", caught |-> "none", device |-> "None",
           accepted |-> FALSE])

\* a direct call of execute_control_command
ExecuteControlCommand(control_type, value, kfail, mfail) ==
    /\ \E r \in {execute_control_command(control_type, value, kfail, mfail)} :
          BridgeStep("execute_control_command", control_type, value, r)
    /\ UNCHANGED running

\* a direct call of publish_report
PublishReport(control_type, kfail, mfail) ==
    /\ \E r \in {publish_report(control_type, "set", kfail, mfail)} :
          BridgeStep("publish_report", control_type, NoneVal,
                     [io |-> r.io, raised |-> r.raised, caught |-> "none",
                      device |-> "None", accepted |-> FALSE])
    /\ UNCHANGED running

\* a device id is held as its parts between dots; its first part is the
\* text an MQTT topic carries after "bike/"
DeviceIds == { <<"000001">>, <<"resistance_bike">>, <<"lab", "7">> }

\* KafkaTopics.control_topic, as the parts topic.split('.') gives
control_topic(device_id, control_type) ==
    <<"bike">> \o device_id \o <<control_type, "control">>

\* on_kafka_message, lines 113-115: the third part of the topic
KafkaControlType(topic) == IF Len(topic) >= 3 THEN topic[3] ELSE "None"

\* the topics setup_mqtt_client subscribes to, as the segments between slashes
mqtt_control_topic(device_id, control_type) ==
    <<"bike", device_id[1], control_type, "control">>

\* the control type whose name a lower-cased segment begins with
LeadingType(segment) ==
    IF segment \in {"resistance", "resistance_bike"} THEN "resistance"
    ELSE IF segment = "incline" THEN "incline"
    ELSE IF segment = "fan" THEN "fan"
    ELSE "None"

\* "/<control type>" in msg.topic.lower(): a segment after a slash begins with it
InTopic(control_type, topic) ==
    \E i \in 2..Len(topic) : LeadingType(topic[i]) = control_type

\* on_mqtt_message, lines 138-146: the first pattern of the chain that occurs
MqttControlType(topic) ==
    IF InTopic("resistance", topic) THEN "resistance"
    ELSE IF InTopic("incline", topic) THEN "incline"
    ELSE IF InTopic("fan", topic) THEN "fan"
    ELSE "None"

\* Kafka messages: the control topics of the device ids and a topic of fewer
\* than three parts; a payload is a dict with or without the key value, or a
\* bare value
KafkaTopicsIn ==
    { control_topic(id, t) : id \in DeviceIds, t \in ControlTypes }
    \cup { <<"bike", "status">> }
KafkaPayloads ==
    [dict : {TRUE}, value : BridgeValues \cup {NoneVal, TextVal}]
    \cup [dict : {FALSE}, value : BridgeValues \cup {TextVal}]

\* KafkaControlCommandHandler.on_kafka_message: everything runs in a try block
\* whose handler prints the exception
OnKafkaMessage(topic, payload, kfail, mfail) ==
    /\ running
    /\ kafka_client # "None"
    /\ IF KafkaControlType(topic) = "None"
         THEN BridgeStep("on_kafka_message", "None", payload.value,
                         [io |-> <<>>, raised |-> "none", caught |-> "none",
                          device |-> "None", accepted |-> FALSE,
                          topic |-> topic])
         ELSE \E r \in {execute_control_command(KafkaControlType(topic),
                                                payload.value, kfail, mfail)} :
                 BridgeStep("on_kafka_message", KafkaControlType(topic),
                            payload.value,
                            [io |-> r.io, raised |-> "none",
                             caught |-> IF r.raised # "none" THEN r.raised
                                        ELSE r.caught,
                             device |-> r.device, accepted |-> r.accepted,
                             topic |-> topic])
    /\ UNCHANGED running

\* KafkaControlCommandHandler.on_mqtt_message: the payload text is a command
\* only when it matches [-+]?\d+$
MqttTopicsIn ==
    { mqtt_control_topic(id, t) : id \in DeviceIds, t \in ControlTypes }
    \cup { <<"bike", "000001", "status">> }
OnMqttMessage(topic, value, kfail, mfail) ==
    /\ running
    /\ mqtt_client # "None"
    /\ IF MqttControlType(topic) = "None" \/ ~ Whole(value)
         THEN BridgeStep("on_mqtt_message", "None", value,
                         [io |-> <<>>, raised |-> "none", caught |-> "none",
                          device |-> "None", accepted |-> FALSE,
                          topic |-> topic])
         ELSE \E r \in {execute_control_command(MqttControlType(topic), value,
                                                kfail, mfail)} :
                 BridgeStep("on_mqtt_message", MqttControlType(topic), value,
                            [io |-> r.io, raised |-> "none",
                             caught |-> IF r.raised # "none" THEN r.raised
                                        ELSE r.caught,
                             device |-> r.device, accepted |-> r.accepted,
                             topic |-> topic])
    /\ UNCHANGED running

\* ControlCommandPublisher.publish_fan_control
PublishFanControl(speed, kfail, mfail) ==
    /\ IF speed < 0 \/ speed > 1000
         THEN BridgeStep("publish_fan_control", "fan", speed,
                         [io |-> <<>>, raised |-> "ValueError",
                          caught |-> "none", device |-> "None",
                          accepted |-> FALSE])
         ELSE \E r \in {Publishes("control", "fan", "set", kfail, mfail)} :
                 BridgeStep("publish_fan_control", "fan", speed,
                            [io |-> r.io, raised |-> r.raised,
                             caught |-> "none", device |-> "None",
                             accepted |-> TRUE])
    /\ UNCHANGED running

NextBridge ==
    \/ StartConsuming
    \/ \E t \in ControlTypes \cup {"other"} :
       \E v \in BridgeValues \cup {NoneVal, TextVal} :
       \E kfail, mfail \in BOOLEAN : ExecuteControlCommand(t, v, kfail, mfail)
    \/ \E t \in ControlTypes : \E kfail, mfail \in BOOLEAN :
          PublishReport(t, kfail, mfail)
    \/ \E t \in KafkaTopicsIn : \E p \in KafkaPayloads :
       \E kfail, mfail \in BOOLEAN : OnKafkaMessage(t, p, kfail, mfail)
    \/ \E t \in MqttTopicsIn : \E v \in BridgeValues \cup {TextVal} :
       \E kfail, mfail \in BOOLEAN : OnMqttMessage(t, v, kfail, mfail)
    \/ \E speed \in BridgeValues : \E kfail, mfail \in BOOLEAN :
          PublishFanControl(speed, kfail, mfail)

SpecBridge == InitBridge /\ [][NextBridge]_vars

\* ---- one submit against one response, on the climber: the MQTT thread runs
\* Climber.on_message and SubDevice.write_value while the GLib loop runs
\* SubDevice.control_point_response for the write of the previous command
ChannelState(d) ==
    [pending |-> new_internal_value[d], committed |-> internal_value[d],
     count |-> write_timeout_count[d], cancel |-> terminate_write[d]]

\* Climber.on_message and write_value, lines 419-421 and 366-377, run alone
SubmitAlone(st, v) ==
    [st EXCEPT !.pending = v, !.count = 0, !.cancel = FALSE]

\* control_point_response, lines 339-351, run alone
ResponseAlone(st, response_type) ==
    IF response_type = WRITE_SUCCESS
      THEN [st EXCEPT !.committed = st.pending, !.cancel = TRUE]
      ELSE [st EXCEPT !.count = @ + 1]

RaceValues == {-97, 15, 190}

\* the state after one command was submitted and its write issued: the write
\* thread has ended and the write is unanswered
InitRace ==
    /\ conn = "resolved"
    /\ ftms = "ftms"
    /\ ftms_control_point = "ftms_control_point"
    /\ indoor_bike_data = "indoor_bike_data"
    /\ control_point = [climber |-> "incline_control",
                        resistance |-> "ftms_control_point"]
    /\ internal_value = [d \in Devices |-> NoneVal]
    /\ \E p \in RaceValues :
          /\ new_internal_value = [climber |-> p, resistance |-> NoneVal]
          /\ new_write_value = [climber |-> Encode("climber", p),
                                resistance |-> <<>>]
          /\ inflight = {[id |-> 1] @@
                          Request("write", "incline_control",
                                  Encode("climber", p), "climber", 1, 1, p)}
    /\ terminate_write = [d \in Devices |-> FALSE]
    /\ write_timeout_count = [d \in Devices |-> 0]
    /\ write_thread = [climber |-> 1, resistance |-> 0]
    /\ threads = [d \in Devices |-> [n \in ThreadIds |->
                     IF d = "climber" /\ n = 1 THEN "done" ELSE "none"]]
    /\ mq = [pc |-> "idle", dev |-> "None"]
    /\ gl = GlIdle
    /\ nwid = 4
    /\ msgs = 1
    /\ enableFails = 0
    /\ notifying = {}
    /\ flags = [f \in FlagSet |-> NoneVal]
    /\ vals = [f \in ValueSet |-> NoneRat]
    /\ idle = FALSE
    /\ dres = NoData
    /\ enable_characteristic = "None"
    /\ fan_characteristic = "None"
    /\ enableCount = 0
    /\ startCount = 0
    /\ sendCount = 0
    /\ HrInit /\ logged = <<>> /\ BridgeAbsent /\ OrderInit /\ ButtonInit
    /\ \E v \in RaceValues : \E r \in {WRITE_SUCCESS, WRITE_FAIL} :
          race = [start |-> ChannelState("climber"), v |-> v, resp |-> r]
    /\ ev = [kind |-> "thread_write", dev |-> "climber", char |-> "None",
             val |-> 1, sub |-> 0, att |-> 0]
    /\ out = <<>>
    /\ calls = <<>>

NextRace ==
    \/ Submitted("climber") = 1 /\ OnMessage("climber", race.v)
    \/ WriteValueJoin
    \/ WriteValueReset
    \/ WriteValueStart
    \/ race.resp = WRITE_SUCCESS /\ \E w \in inflight : WriteSucceeded(w)
    \/ WriteSucceededCommit
    \/ race.resp = WRITE_FAIL /\ \E w \in inflight : WriteFailed(w)

SpecRace == InitRace /\ [][NextRace]_vars

\* ---- both channels of one trainer: a valid and an invalid incline, two valid
\* resistances with the same integer part and an invalid one
PairValues == [climber |-> {15, 195}, resistance |-> {505, 509, 1005}]

NextPair ==
    \/ ConnectSucceeded
    \/ ServicesResolved(ClimberProfile)
    \/ \E t \in Devices : \E v \in PairValues[t] : OnMessage(t, v)
    \/ WriteValueJoin
    \/ WriteValueReset
    \/ WriteValueStart
    \/ \E d \in Devices : \E n \in ThreadIds : WriteProcessCheck(d, n)
    \/ \E d \in Devices : \E n \in ThreadIds : WriteProcessWrite(d, n)
    \/ \E w \in inflight : WriteSucceeded(w)
    \/ WriteSucceededCommit
    \/ \E w \in inflight : WriteFailed(w)

SpecPair == Init /\ [][NextPair]_vars

\* ---- the notification retries on their own: the climber's channel with one
\* command value, and a transport that fails up to MaxRetries enable requests
MaxRetries == 3

NextEnable ==
    \/ ConnectSucceeded
    \/ ServicesResolved(ClimberProfile)
    \/ OnMessage("climber", 15)
    \/ WriteValueJoin
    \/ WriteValueReset
    \/ WriteValueStart
    \/ \E n \in ThreadIds : WriteProcessCheck("climber", n)
    \/ \E n \in ThreadIds : WriteProcessWrite("climber", n)
    \/ \E w \in inflight : WriteSucceeded(w)
    \/ WriteSucceededCommit
    \/ \E w \in inflight : WriteFailed(w)
    \/ \E w \in inflight : EnableSucceeded(w)
    \/ \E w \in inflight : EnableFailedWithin(w, MaxRetries)

SpecEnable == Init /\ [][NextEnable]_vars

\* ---- the order of telemetry: the trainer offers Indoor Bike Data, its
\* notifications are enabled, and MaxNotes of them are delivered
MaxNotes == 3
OrderPackets ==
    { <<4, 0, 2, 0, 3, 0>>, <<4, 0, 2, 0, 0, 0>>, <<0, 0, 2, 0>>,
      <<5, 0, 3, 0>>, <<68, 0, 2, 0, 3, 0, 7, 0>>, <<4>> }

NextOrder ==
    \E p \in OrderPackets : NotificationDelivered("indoor_bike_data", p, MaxNotes)

SpecOrder == InitData /\ [][NextOrder]_vars

\* ---- the session from connection to disconnection, with the climber's
\* commands, their acknowledgements and the telemetry
NextTable ==
    \/ ConnectSucceeded
    \/ \E offered \in DeviceProfiles : ServicesResolved(offered)
    \/ DisconnectSucceeded
    \/ OnMessage("climber", 15)
    \/ WriteValueJoin
    \/ WriteValueReset
    \/ WriteValueStart
    \/ \E n \in ThreadIds : WriteProcessCheck("climber", n)
    \/ \E n \in ThreadIds : WriteProcessWrite("climber", n)
    \/ \E w \in inflight : WriteSucceeded(w)
    \/ WriteSucceededCommit
    \/ \E w \in inflight : WriteFailed(w)
    \/ \E w \in inflight : EnableSucceeded(w)
    \/ \E c \in notifying : \E p \in SessionPackets :
          CharacteristicValueUpdated(c, p)

SpecTable == Init /\ [][NextTable]_vars

\* ---- the demo button driver: one Button, the GPIO library's callback thread
\* and the button's publish_loop thread
MaxEdges == 3

\* Button.publish_loop, lines 94-99: the payload for a pin level
Payload(name, level) == IF level = 1 THEN name ELSE "LOW"

ButtonStep(kind, b, o) ==
    /\ button' = b
    /\ Step(kind, "None", NoneVal, o, <<>>)
    /\ UNCHANGED <<chanVars, dataVars, fanVars, hrVars, sessVars, bridgeVars,
                   raceVars, orderVars, serviceVars>>

\* the pin changes level; the GPIO library detects the edge (GPIO.BOTH) and
\* queues a call of the callback; every edge is taken to be reported
GpioEdge ==
    /\ button.edges < MaxEdges
    /\ ButtonStep("edge",
                  [button EXCEPT !.pin = 1 - @, !.edges = @ + 1,
                                 !.callbacks = @ + 1], <<>>)

\* Button.state_change, on the GPIO library's thread
StateChange ==
    /\ button.callbacks > 0
    /\ ButtonStep("state_change",
                  [button EXCEPT !.to_publish = TRUE, !.callbacks = @ - 1],
                  <<>>)

\* Button.publish_loop, line 89, after the sleep of line 104
PublishLoopTest ==
    /\ button.pc = "test"
    /\ ButtonStep("poll",
                  [button EXCEPT !.pc = IF button.to_publish THEN "read"
                                        ELSE "test"], <<>>)

\* Button.publish_loop, line 91
PublishLoopRead ==
    /\ button.pc = "read"
    /\ ButtonStep("read_pin",
                  [button EXCEPT !.state = button.pin, !.pc = "publish"], <<>>)

\* Button.publish_loop, lines 94-101
PublishLoopPublish ==
    /\ button.pc = "publish"
    /\ ButtonStep("button_publish",
                  [button EXCEPT !.payload = Payload("RIGHT", button.state),
                                 !.pc = "clear"],
                  <<[topic |-> "Turn/Right",
                     value |-> Payload("RIGHT", button.state)]>>)

\* Button.publish_loop, line 102
PublishLoopClear ==
    /\ button.pc = "clear"
    /\ ButtonStep("clear",
                  [button EXCEPT !.to_publish = FALSE, !.pc = "test"], <<>>)

NextButton ==
    \/ GpioEdge
    \/ StateChange
    \/ PublishLoopTest
    \/ PublishLoopRead
    \/ PublishLoopPublish
    \/ PublishLoopClear

SpecButton == Init /\ [][NextButton]_vars

\* ============================================================== properties
\* a request answered after its sub-device accepted a newer command
Superseded(e) ==
    /\ e.dev \in Devices
    /\ e.sub >= 1
    /\ e.sub < Submitted(e.dev)

\* C1: the acknowledgement of a write that a newer command on the same channel
\* has superseded has no effect: handling it changes neither the committed
\* value nor the cancel flag and publishes no report, so that the committed
\* value is the newer command's only through that command's own
\* acknowledgement.
C1_LateAckHasNoEffect ==
    [][ (ev'.kind \in {"write_succeeded", "commit", "write_failed"}
         /\ Superseded(ev)')
        => /\ internal_value' = internal_value
           /\ terminate_write' = terminate_write
           /\ out' = <<>> ]_vars

\* a sub-device with nothing of its own in progress: no write thread alive,
\* no write of its commands unanswered, no command being launched
Idle(d) ==
    /\ Alive(d) = {}
    /\ ~ (mq.pc # "idle" /\ mq.dev = d)
    /\ ~ \E w \in inflight : w.op = "write" /\ w.dev = d

\* C2: a channel whose write keeps failing goes on writing until exactly
\* _TIMEOUT = 10 failures have been handled and is idle only then: a bound
\* channel that is idle after a command that neither succeeded nor was
\* cancelled has counted 10 failures.
C2_IdleOnlyAfterTimeout ==
    \A d \in Devices :
        (/\ control_point[d] # "None"
         /\ Submitted(d) >= 1
         /\ Idle(d)
         /\ ~ terminate_write[d])
        => write_timeout_count[d] = TIMEOUT

\* C3: the committed value changes only in the step that handles a
\* write-succeeded event addressed to the channel's own control point; no
\* command, write-failed event, notification event or telemetry changes it.
C3_CommitOnlyOnWriteSucceeded ==
    [][ \A d \in Devices :
          internal_value'[d] # internal_value[d]
          => /\ gl.pc = "commit" /\ gl.dev = d
             /\ control_point[d] # "None" /\ gl.char = control_point[d]
             /\ ev'.kind = "commit" /\ ev'.dev = d ]_vars

C3_Witness ==
    /\ ev.kind = "commit"
    /\ internal_value[ev.dev] # NoneVal
    /\ notifying # {}

\* C4: the committed value is the initial unset value or the value carried by
\* the write whose success was just acknowledged, never a value whose own
\* write has not been acknowledged.
C4_CommittedValueWasAcknowledged ==
    ev.kind = "commit"
    => internal_value[ev.dev] \in {NoneVal, ev.val}

\* C5: a channel never has two write threads alive; when write_value goes on
\* to launch the new thread the previous one has finished, and while it waits
\* for that the cancel flag is set.
C5_OneLiveAttempt ==
    /\ \A d \in Devices : Cardinality(Alive(d)) <= 1
    /\ mq.pc = "join" => terminate_write[mq.dev]
    /\ mq.pc \in {"reset", "start"} => Alive(mq.dev) = {}
    /\ ev.kind = "thread_write"
         => \A m \in ThreadIds : m # ev.val => threads[ev.dev][m] \in {"none", "done"}

C5_Witness ==
    \E d \in Devices :
        /\ threads[d][1] = "done"
        /\ threads[d][2] \in {"ready", "go"}

\* the range and resolution rule of each parameter, as the specification
\* gives them (tenths)
RuleValid(d, v) ==
    IF d = "climber"
      THEN INCLINE_MIN <= v /\ v <= INCLINE_MAX /\ (\E k \in -40..40 : v = 5 * k)
    ELSE IF d = "resistance"
      THEN RESISTANCE_MIN <= v /\ v <= RESISTANCE_MAX
    ELSE 0 <= v /\ v <= 1000

CommandKinds == {"submit", "reject", "fan_submit", "fan_reject", "fan_error"}

\* C6: a command whose value is outside its parameter's range or resolution
\* causes no transport write and does not become the pending value.
C6_InvalidNeverSent ==
    (ev.kind \in CommandKinds /\ ~ RuleValid(ev.dev, ev.val))
    => /\ calls = <<>>
       /\ ev.kind \notin {"submit", "fan_submit"}
       /\ ev.dev \in Devices => new_internal_value[ev.dev] # ev.val

\* C7: Climber.on_message accepts an incline exactly when it lies in
\* [INCLINE_MIN, INCLINE_MAX] and is a multiple of 0.5; both ends are
\* accepted and INCLINE_MIN + 0.3 is rejected.
C7_InclineAcceptedIffValid ==
    (ev.kind \in {"submit", "reject"} /\ ev.dev = "climber")
    => /\ (ev.kind = "submit") <=> RuleValid("climber", ev.val)
       /\ ev.val \in {INCLINE_MIN, INCLINE_MAX} => ev.kind = "submit"
       /\ ev.val = INCLINE_MIN + 3 => ev.kind = "reject"
       /\ ev.kind = "submit" => new_internal_value["climber"] = ev.val

C7_Witness ==
    /\ ev.kind = "submit"
    /\ ev.dev = "climber"
    /\ ev.val = INCLINE_MAX
    /\ new_internal_value["climber"] = INCLINE_MAX

\* C8: every rejected command is answered by a report on its parameter's
\* report topic, before any transport call.
C8_RejectionReported ==
    ev.kind = "reject"
    => /\ Len(out) >= 1
       /\ out[1].topic = report_topic(ev.dev)
       /\ calls = <<>>

\* C9: an Indoor Bike Data packet whose length differs from the length its
\* flags imply is discarded: nothing is published for it, and the session
\* stays connected.
C9_MalformedLengthDiscarded ==
    (/\ dres.handled
     /\ Len(dres.packet) >= 2
     /\ ImpliedLength(dres.packet) # Len(dres.packet))
    => /\ out = <<>>
       /\ conn = "resolved"

\* C10: process_data raises on no packet, however short or malformed.
C10_DecoderNeverRaises ==
    dres.handled => dres.raised = "none"

PresentBits(value) == { k \in 0..12 : Present(k, value) }
WellFormed(value) ==
    Len(value) >= 2 /\ Len(value) = LayoutOffset(13, value)

\* C12: handling a well-formed Indoor Bike Data packet publishes exactly one
\* report per field its flags mark present, with the value decoded from that
\* packet, and nothing for an absent field.
C12_OneReportPerPresentField ==
    (dres.handled /\ WellFormed(dres.packet))
    => /\ Len(out) = Cardinality(PresentBits(dres.packet))
       /\ \A i \in 1..Len(out) :
             \E k \in PresentBits(dres.packet) :
                 /\ k # 8
                 /\ out[i].value = vals[FlagNames[k + 1]]

\* C13: a heart-rate device requests a disconnect exactly at every
\* zero_limit-th zero sample in a row (not before, and not again until
\* another full streak), and its zero counter is 0 after a nonzero sample.
C13_ZeroStreakDisconnect ==
    hr.dev \in HrDevices
    => /\ (hr.disconnects = 1)
            <=> (hr.heartrate = 0 /\ zeroRun[hr.dev] % ZERO_LIMIT = 0)
       /\ hr.disconnects \in {0, 1}
       /\ hr.heartrate # 0 => zeroCount[hr.dev] = 0

\* the steps that handle an acknowledgement of the transport
AckKinds ==
    {"write_succeeded", "write_succeeded_ignored", "commit",
     "write_failed", "write_failed_ignored",
     "enable_succeeded", "enable_failed", "enable_failed_ignored"}

Current(e) ==
    /\ e.dev \in Devices
    /\ e.att >= 1
    /\ e.att = Submitted(e.dev)

C16_ReportOnlyAfterCommandAck ==
    [][ \A d \in Devices :
          (\E i \in 1..Len(out') : out'[i].topic = report_topic(d))
          => /\ ev'.kind = "commit" /\ ev'.dev = d
             /\ ev'.sub >= 1
             /\ ev'.val # NoneVal
             /\ Submitted(d) >= 1 ]_vars

\* C17: a connect failure is terminal for the session and is surfaced: after
\* the connect-failed event the session makes no further connect, discovery,
\* write or enable-notification call, and the failure has been made visible
\* to the operator.
C17_ConnectFailureTerminalAndSurfaced ==
    [][ /\ conn = "exited"
           => conn' = "exited" /\ calls' = <<>> /\ nwid' = nwid
        /\ conn' = "exited"
           => \E i \in 1..Len(logged') : logged'[i] = "Connection failed" ]_vars

\* the calls that publish one event on the enabled transports
PublishCalls == {"publish_report", "publish_fan_control"}
Made(transport) == \E i \in 1..Len(io) : io[i].transport = transport
Failed(transport) ==
    \E i \in 1..Len(io) : io[i].transport = transport /\ ~ io[i].ok

\* C18: with both transports enabled an event is published to both
\* independently: when the publish on Kafka raises, the publish on MQTT is
\* still made, and when the publish on MQTT raises, the publish on Kafka is.
C18_TransportsIndependent ==
    (KafkaOn /\ MqttOn /\ bres.call \in PublishCalls
     /\ bres.raised \in {"KafkaError", "MQTTError"})
    => /\ Failed("kafka") => Made("mqtt")
       /\ Failed("mqtt") => Made("kafka")

\* C19: with no transport enabled (use_kafka and use_mqtt both false) the
\* bridge still validates commands but does no pub/sub I/O: whatever
\* start_consuming, execute_control_command and publish_report calls are
\* made, no client exists and no publish or subscribe call is made on either
\* transport.
C19_NoTransportNoIO ==
    (~ use_kafka /\ ~ use_mqtt)
    => /\ kafka_client = "None"
       /\ mqtt_client = "None"
       /\ io = <<>>
       /\ (bres.call = "execute_control_command" /\ bres.type \in ControlTypes)
          => bres.accepted =
                (/\ bres.value \notin {NoneVal, TextVal}
                 /\ IF bres.type = "incline"
                      THEN INCLINE_MIN <= bres.value
                           /\ bres.value <= INCLINE_MAX
                    ELSE IF bres.type = "resistance"
                      THEN RESISTANCE_MIN <= bres.value
                           /\ bres.value <= RESISTANCE_MAX
                    ELSE 0 <= bres.value /\ bres.value <= 1000)

\* a started bridge without transports has accepted an incline command and
\* handed it to the device
C19_Witness ==
    /\ ~ use_kafka /\ ~ use_mqtt
    /\ running
    /\ bres.call = "execute_control_command"
    /\ bres.accepted
    /\ bres.device = "incline"
    /\ bres.raised = "none"

\* the exceptions a message handler can raise
HandlerErrors == {"JSONDecodeError", "KeyError", "TypeError"}

\* C20: a malformed inbound payload (not parseable, without the expected key,
\* or with a value that is not a number) or a message on a topic that routes
\* nowhere is dropped and never crashes the bridge: handling it makes no
\* transport write, no exception leaves the message handler, and the handler
\* stays ready for the next command.
C20_MalformedDropped ==
    [][ ev'.kind \in HandlerErrors \cup {"unrouted"}
        => /\ calls' = <<>>
           /\ nwid' = nwid
           /\ ev'.kind \notin HandlerErrors
           /\ mq'.pc = "idle" ]_vars

\* C21: handling a write-failed event of a channel's attempt increments the
\* failure counter by one and, while the counter is below 10 and the attempt
\* has not been cancelled, reissues the same write (same bytes, same
\* characteristic).
C21_FailedWriteReissued ==
    [][ (ev'.kind = "write_failed" /\ ev'.att >= 1)
        => /\ write_timeout_count'[ev'.dev] = write_timeout_count[ev'.dev] + 1
           /\ (write_timeout_count'[ev'.dev] < TIMEOUT
               /\ ~ terminate_write'[ev'.dev])
              => \A w \in inflight \ inflight' :
                    \E i \in 1..Len(calls') :
                        /\ calls'[i].op = "write"
                        /\ calls'[i].char = w.char
                        /\ calls'[i].bytes = w.bytes ]_vars

\* both operations of the two-thread run have finished
RaceOver ==
    /\ Submitted("climber") = 2
    /\ mq.pc = "idle"
    /\ gl.pc = "idle"
    /\ inflight = {}

ChannelOwn(d) ==
    <<internal_value[d], new_internal_value[d], new_write_value[d],
      write_timeout_count[d], terminate_write[d], write_thread[d], threads[d],
      {w \in inflight : w.dev = d}>>

\* C23: attempts on different channels are independent: a submit, a
\* write-succeeded or write-failed event, or a write-thread step of one
\* channel leaves the other channel's pending value, committed value, failure
\* counter, cancel flag and in-flight attempt unchanged, and a command of one
\* parameter causes no write on the other parameter's characteristic.
C23_ChannelsIndependent ==
    [][ \A d \in Devices :
          (ev'.dev \in Devices /\ ev'.dev # d)
          => /\ ChannelOwn(d)' = ChannelOwn(d)
             /\ \A i \in 1..Len(out') : out'[i].topic # report_topic(d)
             /\ \A i \in 1..Len(calls') :
                   /\ calls'[i].dev # d
                   /\ calls'[i].char # control_point[d] ]_vars

\* the climber's command is committed while a resistance command's write is
\* unanswered
C23_Witness ==
    /\ ev.kind = "commit"
    /\ ev.dev = "climber"
    /\ ev.att >= 1
    /\ new_internal_value["resistance"] # NoneVal
    /\ \E w \in inflight : w.dev = "resistance" /\ w.att >= 1

\* the control-point characteristics the session holds
ControlPointsFound ==
    {ftms_control_point, control_point["climber"]} \ {"None"}

\* C24: service resolution issues a request-control write to every
\* control-point characteristic it finds (the FTMS control point and the
\* incline control characteristic), and a command write is issued on a control
\* point only after that resolution step.
C24_RequestControlOnEveryControlPoint ==
    [][ /\ ev'.kind = "services_resolved"
           => \A cp \in ControlPointsFound' :
                 \E i \in 1..Len(calls') :
                    /\ calls'[i].op = "write"
                    /\ calls'[i].char = cp
                    /\ calls'[i].att = 0
        /\ ev'.kind = "thread_write" => conn = "resolved" ]_vars

\* C25: a command's write is issued on a channel only once service resolution
\* has bound the channel's control point, and a valid command that arrives
\* while the control point is unbound issues no write and ends no thread with
\* an uncaught error.
C25_NoWriteBeforeBound ==
    [][ /\ ev'.kind = "thread_write"
           => /\ conn = "resolved"
              /\ control_point[ev'.dev] # "None"
              /\ \A i \in 1..Len(calls') : calls'[i].char = control_point[ev'.dev]
        /\ (ev'.dev \in Devices /\ control_point[ev'.dev] = "None")
           => /\ calls' = <<>>
              /\ ev'.kind # "thread_error" ]_vars

\* C26: inbound routing is exact: a message on the Kafka control topic of a
\* device id without a dot and a control type t is dispatched to
\* execute_control_command with control_type = t, and a numeric message on an
\* MQTT topic that contains "/t" is dispatched with control_type = t.
C26_RoutingExact ==
    \A t \in ControlTypes :
       /\ \A id \in DeviceIds :
             (Len(id) = 1 /\ bres.call = "on_kafka_message"
              /\ bres.topic = control_topic(id, t))
             => bres.type = t
       /\ (bres.call = "on_mqtt_message" /\ Whole(bres.value)
           /\ InTopic(t, bres.topic))
          => bres.type = t

\* C27: write_process never calls control_point.write_value when
\* terminate_write is set, nor when write_timeout_count has reached the
\* timeout: a write thread that finds either at its check ends without writing.
C27_NoWriteWhenCancelledOrTimedOut ==
    [][ (/\ ev'.kind = "check"
         /\ \/ terminate_write[ev'.dev]
            \/ write_timeout_count[ev'.dev] >= TIMEOUT)
        => threads'[ev'.dev][ev'.val] = "done" ]_vars

\* the values, counter and cancel flag of every channel, and its write threads
ChannelValues ==
    <<internal_value, new_internal_value, new_write_value,
      write_timeout_count, terminate_write, write_thread, threads>>

\* C28: for a characteristic a channel owns, each enable-failed event causes
\* exactly one re-issue of enable-notifications on that characteristic,
\* however many failures came before, and changes no committed value, pending
\* value or failure counter; each enable-succeeded event causes no transport
\* call and changes none of them either.
C28_EnableRetriedOnFailure ==
    [][ /\ (ev'.kind = "enable_failed" /\ ev'.dev \in Devices)
           => /\ Len(calls') = 1
              /\ calls'[1].op = "enable"
              /\ calls'[1].char = ev'.char
              /\ calls'[1].char = control_point[ev'.dev]
              /\ \E w \in inflight' : w.op = "enable" /\ w.char = ev'.char
              /\ out' = <<>>
              /\ ChannelValues' = ChannelValues
        /\ (ev'.kind = "enable_succeeded" /\ ev'.dev \in Devices)
           => /\ calls' = <<>>
              /\ out' = <<>>
              /\ inflight' \subseteq inflight
              /\ ChannelValues' = ChannelValues ]_vars

\* the third failure in a row has been answered with another enable request
\* while a command is pending and an earlier one is committed
C28_Witness ==
    /\ ev.kind = "enable_failed"
    /\ ev.dev = "climber"
    /\ enableFails = MaxRetries
    /\ Len(calls) = 1
    /\ internal_value["climber"] # NoneVal
    /\ \E w \in inflight : w.op = "write" /\ w.att >= 1

RoutingTable == <<ftms, ftms_control_point, indoor_bike_data, control_point>>

\* C30: the routing table (ftms, ftms_control_point, indoor_bike_data and each
\* channel's control_point) is written only during service resolution:
\* commands, acknowledgements, value updates and disconnection leave it
\* unchanged.
C30_RoutingTableWrittenOnlyAtResolution ==
    [][ ev'.kind # "services_resolved" => RoutingTable' = RoutingTable ]_vars

\* the session has disconnected after a command was committed, a value update
\* was handled, and with a write still unanswered; the table is still bound
C30_Witness ==
    /\ ev.kind = "disconnect_succeeded"
    /\ ftms = "ftms"
    /\ control_point["climber"] # "None"
    /\ control_point["resistance"] # "None"
    /\ internal_value["climber"] # NoneVal
    /\ dres.handled
    /\ \E w \in inflight : w.op = "write" /\ w.att >= 1

\* C31: disconnection does not destroy the channels' committed values:
\* handling disconnect_succeeded leaves every channel's _internal_value
\* unchanged.
C31_DisconnectKeepsCommitted ==
    [][ ev'.kind = "disconnect_succeeded"
        => internal_value' = internal_value ]_vars

\* the session has disconnected with the incline 1.5 committed
C31_Witness ==
    /\ ev.kind = "disconnect_succeeded"
    /\ conn = "disconnected"
    /\ internal_value["climber"] = 15

\* the values the two on_message methods refuse: outside the range of the
\* parameter, or an incline that is not a multiple of 0.5
Refused(d, v) ==
    IF d = "climber"
      THEN v < INCLINE_MIN \/ v > INCLINE_MAX \/ v % 5 # 0
      ELSE v < RESISTANCE_MIN \/ v > RESISTANCE_MAX

\* C32: submitting an invalid value leaves the channel in its current state:
\* the pending value, committed value, pending write bytes, failure counter,
\* cancel flag and any in-flight attempt are unchanged by a rejected command.
C32_RejectedCommandChangesNothing ==
    [][ (/\ ev'.kind \in {"submit", "reject"}
         /\ ev'.dev \in Devices
         /\ Refused(ev'.dev, ev'.val))
        => /\ ev'.kind = "reject"
           /\ \A d \in Devices : ChannelOwn(d)' = ChannelOwn(d)
           /\ mq' = mq
           /\ calls' = <<>> ]_vars

\* an invalid incline has been rejected while a valid one is pending and its
\* write unanswered
C32_Witness ==
    /\ ev.kind = "reject"
    /\ ev.dev = "climber"
    /\ ev.val = 195
    /\ new_internal_value["climber"] = 15
    /\ internal_value["climber"] = NoneVal
    /\ \E w \in inflight : w.dev = "climber" /\ w.att >= 1

\* C33: execute_control_command invokes the device's set-inclination
\* operation only for values within [INCLINE_MIN, INCLINE_MAX] that are
\* multiples of 0.5, its set-resistance operation only for values within
\* [RESISTANCE_MIN, RESISTANCE_MAX], and no device operation for any other
\* value.
C33_DeviceOperationOnlyForValidValues ==
    /\ bres.device = "incline"
       => /\ INCLINE_MIN <= bres.value /\ bres.value <= INCLINE_MAX
          /\ bres.value % 5 = 0
    /\ bres.device = "resistance"
       => RESISTANCE_MIN <= bres.value /\ bres.value <= RESISTANCE_MAX

FanReady ==
    enableCount >= 3 /\ startCount >= 3 /\ fan_characteristic # "None"

\* C35: for every valid fan command value v in [0, 100] the fan-speed write
\* issued to the fan characteristic carries the opcode byte 0x02 followed by
\* one byte equal to v, the value of the command that triggered it: once the
\* handshake is over, a valid command issues that write, and so does the
\* write-succeeded handler while it repeats the speed write.
C35_FanSpeedWriteCarriesValue ==
    [][ /\ (/\ FanReady
            /\ ev'.kind \in {"fan_submit", "fan_error", "fan_reject"}
            /\ ev'.val % 10 = 0 /\ 0 <= ev'.val /\ ev'.val <= 1000)
           => calls' = <<Request("write", fan_characteristic,
                                 <<2, ev'.val \div 10>>, "fan", 0, 0, NoneVal)>>
        /\ (/\ FanReady /\ sendCount < 3
            /\ ev'.kind \in {"fan_write_succeeded", "fan_error"}
            /\ \E w \in inflight \ inflight' : w.char = fan_characteristic)
           => \E i \in 1..Len(calls') :
                 /\ calls'[i].char = fan_characteristic
                 /\ Len(calls'[i].bytes) = 2
                 /\ calls'[i].bytes[1] = 2 ]_vars

\* no call of write_value of sub-device d is under way
Returned(d) == ~ (mq.pc # "idle" /\ mq.dev = d)

\* C36: each accepted submit starts its attempt from a clean state: when
\* write_value returns, the failure count of its sub-device is 0 and its
\* cancel flag is False, whatever earlier attempts left; and the failure of a
\* write that a newer command has superseded does not count against the newer
\* attempt.
C36_AttemptStartsClean ==
    [][ /\ ev'.kind = "start"
           => /\ write_timeout_count'[ev'.dev] = 0
              /\ terminate_write'[ev'.dev] = FALSE
        /\ (ev'.kind = "write_failed" /\ Superseded(ev)' /\ Returned(ev'.dev))
           => write_timeout_count' = write_timeout_count ]_vars

\* a sample that publish_data has just handled, by its cadence
Sampled == dres.handled /\ dres.raised = "none"
ZeroSample == Sampled /\ vals["instantaneous_cadence"].num <= 0
PositiveSample == Sampled /\ vals["instantaneous_cadence"].num > 0

\* C37: idle suppression in WahooData.publish_data: a sample with cadence > 0
\* is always published and clears idle; a sample with cadence not > 0 is
\* published only if idle is false, and then sets idle; so of consecutive
\* zero-cadence samples the first one (the session's first sample, or one
\* that follows a sample with cadence > 0) is published and each one that
\* follows a zero-cadence sample publishes nothing.
C37_IdleSuppression ==
    [][ (ev'.kind = "value_updated" /\ Sampled')
        => /\ PositiveSample'
              => idle' = FALSE /\ out' = publish(flags', vals')
           /\ (ZeroSample' /\ ~ idle)
              => idle' = TRUE /\ out' = publish(flags', vals')
           /\ (ZeroSample' /\ idle)
              => idle' = TRUE /\ out' = <<>>
           /\ (ZeroSample' /\ (PositiveSample \/ ~ dres.handled))
              => out' = publish(flags', vals')
           /\ (ZeroSample' /\ ZeroSample)
              => out' = <<>> ]_vars

\* a zero-cadence sample that carries the cadence field has followed another
\* one and was suppressed: nothing is published and idle stays set
C37_Witness ==
    /\ ev.kind = "value_updated"
    /\ ZeroSample
    /\ flags["instantaneous_cadence"] = 1
    /\ publish(flags, vals) # <<>>
    /\ idle = TRUE
    /\ out = <<>>

\* a fan step that tried the speed write: with both characteristics bound
\* the only error a fan handler raises is the read of self.speed
SpeedWriteTried ==
    /\ ev.kind = "fan_error"
    /\ enable_characteristic # "None"
    /\ fan_characteristic # "None"
FanAcknowledged ==
    /\ ev.kind \in {"fan_write_succeeded", "fan_error"}
    /\ ev.val = NoneVal

\* C38: the fan's handshake is ordered: enableCount, startCount and sendCount
\* never exceed 3 and never decrease; the write-succeeded handler issues a
\* start write (0x04 0x04) only once enableCount has reached 3; a speed write
\* (0x02, speed) is issued, or tried, only once startCount has reached 3; and
\* once sendCount has reached 3 a write-succeeded event issues no write.
C38_HandshakeOrdered ==
    [][ /\ enableCount <= enableCount' /\ enableCount' <= 3
        /\ startCount <= startCount' /\ startCount' <= 3
        /\ sendCount <= sendCount' /\ sendCount' <= 3
        /\ \A i \in 1..Len(calls') :
              /\ (FanAcknowledged' /\ calls'[i].bytes = FAN_START_BYTES)
                 => enableCount = 3
              /\ (calls'[i].dev = "fan" /\ Len(calls'[i].bytes) = 2
                  /\ calls'[i].bytes[1] = 2)
                 => startCount = 3
        /\ SpeedWriteTried' => (enableCount = 3 /\ startCount = 3)
        /\ (FanAcknowledged' /\ sendCount >= 3) => calls' = <<>> ]_vars

\* the write-succeeded handler has just issued the third start write, with
\* three enable writes acknowledged before it
C38_Witness ==
    /\ FanAcknowledged
    /\ ev.kind = "fan_write_succeeded"
    /\ enableCount = 3
    /\ startCount = 3
    /\ Len(calls) = 1
    /\ calls[1].char = fan_characteristic
    /\ calls[1].bytes = FAN_START_BYTES

\* the button driver at rest: every edge's callback has run and the publish
\* loop has nothing to publish
ButtonAtRest ==
    /\ button.callbacks = 0
    /\ button.pc = "test"
    /\ ~ button.to_publish

\* C39: in the demo button driver no state change is lost: whatever the
\* interleaving of the edge callback with the polling publish loop, once the
\* edges have stopped and the driver is at rest, the last state published is
\* the pin's final state.
C39_NoStateChangeLost ==
    (ButtonAtRest /\ button.edges >= 1)
    => button.payload = Payload("RIGHT", button.pin)

\* sanity of the state space
TypeOK ==
    /\ conn \in {"connecting", "connected", "resolved", "exited",
                 "disconnected"}
    /\ \A d \in Devices : write_timeout_count[d] \in 0..(MaxMsgs + 1)

====
